---- MODULE Spec2Model ----
\* Energy-grid simulation: the aggregation tree (NetworkAgent / ComponentAgent),
\* the component lifecycle (SimpleAgent.start / stop) and the virtual clock
\* (TimeAgent / TimeKeepingMixin), as state machines.
EXTENDS Integers, Sequences, FiniteSets, TLC

\* ---------------------------------------------------------------------------
\* Topology and bounds
\* ---------------------------------------------------------------------------
None == "None"

Networks == {"main", "net1"}
Leaves == {"a", "b"}
Nodes == Networks \cup Leaves
Subs == {"cpo", "cs1"}

\* the topologies the orchestrator is run on, each with the order in which it
\* starts the agents (depth first): a chain main <- net1 <- a, and a star
\* main <- {a, b}; a node outside the topology is never constructed
Chain == [parent |-> [main |-> None, net1 |-> "main", a |-> "net1", b |-> None],
          order |-> <<"main", "net1", "a">>]
Star == [parent |-> [main |-> None, net1 |-> None, a |-> "main", b |-> "main"],
         order |-> <<"main", "a", "b">>]
Topologies == {Chain, Star}

\* initial computed power of the leaves (kW, negative = generation)
InitialPower == [a |-> 2, b |-> 1]

PowerValues == {-1, 2}

\* number of changes of a leaf's computed power over a run
MaxChanges == 1
\* number of periodic info cycles over a run
MaxInfoCycles == 2

\* the clock: real time runs to MaxNow seconds, MaxRateChanges rateChange
\* messages arrive, each with a rate of Rates
MaxNow == 3
MaxRateChanges == 2
Rates == {0, 1, 2}
ConfiguredRates == {1, 2}
\* simulation_start_date, as seconds on the simulated axis
SimStart == 0
\* SimpleAgent.__init__: period of the periodic info behaviour, 1 second, in
\* microseconds (the resolution of the timedelta that holds a period)
InfoPeriod == 1000000
\* resume_simulation: asyncio.sleep(1)
ResumeSleep == 1

\* get_time_agent_jid: the address of the clock authority
TimeAgentJid == "time_agent"
\* subscribe requests of one address handled by the clock authority
MaxSubscribes == 2

\* the subscriber: a network agent, whose SubscriptionBehaviour holds the
\* time subscription only
SubscriberJid == "main"
subscriptions_dict == {<<TimeAgentJid, "time">>}
\* SubscriptionBehaviour.__init__: request_timeout_seconds
request_timeout_seconds == 30
\* messages delivered to the subscriber over a run
MaxDeliveries == 2
\* the subscriber is watched for MaxWait seconds, in steps of WaitSteps
MaxWait == 40
WaitSteps == {10, 20}
\* sim anchors a time message may carry, besides SimStart
SimAnchors == {SimStart, SimStart + 5}

\* the charging stations of the fleet coordinator, and the smart stations that
\* have no coordinator and correct their own setpoint
ManagedStations == {"cs1", "cs2"}
DirectStations == {"cs3", "cs4"}
Stations == ManagedStations \cup DirectStations
CpoJid == "cpo_1"
\* the agents that subscribe to the congestion topic
CongestionConsumers == {CpoJid} \cup DirectStations
\* the configured max_power_usage_kw of each station, in kW as a fraction: the
\* constructor takes every value but None and zero, cs4 is a trickle charger
\* of half a watt
max_power_usage_kw ==
    [cs1 |-> <<10, 1>>, cs2 |-> <<20, 1>>, cs3 |-> <<20, 1>>,
     cs4 |-> <<1, 2000>>]
\* ChargingStationAgent.factor and .congestion_reduction_factor as constructed
factor == 1
congestion_reduction_factor == 1
\* the floor of a directly corrected setpoint, as thousandths
SetpointFloorThousandths == 1
\* smart_charging divides the oversupply by this
OversupplyScale == 100
\* the congestion values the root publishes during the run, in kW, and those
\* of a run with a large surplus
CongestionValues == {-40, 0, 6}
SurplusCongestionValues == CongestionValues \cup {-200}
\* the queue names a subscribe request to the clock authority may carry: none,
\* one the clock authority does not own, and its own
RequestQueues == {None, "congestion", "time"}
\* SimpleAgent and TimeAgent enter these queues
TimeAgentQueues == {"info", "time"}
MaxCycles == 4
MaxRounds == 2
MaxSends == 1
MaxCongestionChanges == 2
MaxStrays == 1
MaxRestarts == 1
MaxParentCalls == 2

VARIABLES
    phase,              \* per node: position in start() / stop()
    running,            \* SimpleAgent._running
    parent,             \* ComponentAgent._parent
    order,              \* the agents of the topology, in construction order
    regTask,            \* RegisterAtParentBehaviour added and not yet run
    reportTasks,        \* SendPowerUpdateBehaviour instances added and not yet run
    power,              \* a leaf's live computed net power
    children,           \* NetworkAgent._children
    current_congestion, \* NetworkAgent.current_congestion
    power_updates,      \* NetworkAgent._power_updates (values only)
    subscribers,        \* queues["congestion"]["subscribers"]
    regBox,             \* mailbox of RegistrationReceiveBehaviour
    powBox,             \* mailbox of PowerUpdateReceiveBehaviour
    last_info,          \* PeriodicInfoUpdate.last_info: <<>> for "", else <<body>>
    changes,            \* leaf power changes so far
    infoCycles,         \* periodic info cycles so far
    emitted,            \* the messages built and sent by the last step, in send order
    finalSent,          \* history: the agent sent a report after stop() began
    lastHandled,        \* history: per network node, child -> value last handled
    restarts,           \* start() calls on a stopped agent so far
    now,                \* real time, in seconds (datetime.now)
    clockPc,            \* TimeAgent: new / paused / sleeping / resumed
    real_broadcast_timestamp,   \* TimeAgent._real_broadcast_timestamp
    sim_broadcast_timestamp,    \* TimeAgent._sim_broadcast_timestamp
    rate,               \* TimeAgent._rate
    original_rate,      \* TimeAgent.original_rate
    period,             \* period of the TimeAgent's PeriodicInfoUpdate, microseconds
    timeTasks,          \* send_update() tasks created by the rate setter, not yet run
    wakeAt,             \* resume_simulation: end of its asyncio.sleep
    time_subscribers,   \* queues["time"]["subscribers"]
    rateChanges,        \* rateChange messages handled so far
    subscribeCount,     \* history: subscribe requests handled, per address
    syncCount,          \* history: initial messages sent, per address
    strayRequests,      \* history: subscribe requests handled that named no queue of the agent
    request_dict,       \* SubscriptionBehaviour.request_dict: (source, topic) -> init_time
    subPc,              \* SubscriptionBehaviour.run: "send", "receive", "failed"
    subBox,             \* mailbox of the SubscriptionBehaviour
    deliveries,         \* messages delivered to the subscriber so far
    keeper,             \* the subscriber's TimeKeepingMixin state
    sim_read,           \* the last value read from keeper's sim_timestamp
    handlerCalls,       \* history: handler invocations, per subscription
    timedOut,           \* history: subscriptions whose request timed out
    pausedFrom,         \* history: <<period, rate>> when the keeper was paused
    congestion,         \* CpoAgent.congestion, ChargingStationAgent.congestion
    charging_stations_charge_speed,     \* CpoAgent: the reports, in arrival order
    charging_stations_new_charge_speed, \* CpoAgent: the commanded values
    cpoPc,              \* CpoBehaviour: "running", or "failed" once run() raised
    cpoBox,             \* mailbox of CpoReceiveCSInfoBehaviour
    csBox,              \* per station, mailbox of ChargingStationCpoNewChargeSpeed
    charge_speed,       \* per station, ChargingStationAgent._net_power_usage_kw
    is_charging,        \* per station, ChargingStationAgent.is_charging
    cycles,             \* ChargingStationBehaviour cycles so far
    rounds,             \* CpoBehaviour rounds so far
    sends,              \* CpoSendCsNewChargingSpeed cycles that sent so far
    congestionChanges,  \* congestion messages handled so far
    asset_config,       \* per asset, what its section of the configuration holds
    prosumption_agents, \* SimulationRunner.prosumption_agents
    warnings,           \* the assets whose construction error was logged as a warning
    parentCalls,        \* calls of the parent setter so far
    parentErrors        \* history: the errors the parent setter raised

gridState == <<phase, running, parent, order, regTask, reportTasks, power,
               children, current_congestion, power_updates, subscribers,
               regBox, powBox, last_info, changes, infoCycles, finalSent,
               lastHandled, restarts>>

clockVars == <<now, clockPc, real_broadcast_timestamp, sim_broadcast_timestamp,
               rate, original_rate, period, timeTasks, wakeAt,
               time_subscribers, rateChanges, subscribeCount, syncCount,
               strayRequests>>

clientVars == <<request_dict, subPc, subBox, deliveries, keeper, sim_read,
                handlerCalls, timedOut, pausedFrom>>

ctrlVars == <<congestion, charging_stations_charge_speed,
              charging_stations_new_charge_speed, cpoPc, cpoBox, csBox,
              charge_speed, is_charging, cycles, rounds, sends,
              congestionChanges>>

buildVars == <<asset_config, prosumption_agents, warnings, parentCalls,
               parentErrors>>

vars == <<gridState, emitted, clockVars, clientVars, ctrlVars, buildVars>>

\* the messages sent by the last step
Sent == {emitted[i] : i \in 1..Len(emitted)}

\* ---------------------------------------------------------------------------
\* Helpers
\* ---------------------------------------------------------------------------
RECURSIVE SumOver(_, _)
SumOver(f, S) ==
    IF S = {} THEN 0
    ELSE LET x == CHOOSE y \in S : TRUE
         IN f[x] + SumOver(f, S \ {x})

\* sum(self._children.values())
SumValues(f) == SumOver(f, DOMAIN f)

\* f with key k set to v (dict assignment: insert or overwrite)
DictSet(f, k, v) == [x \in (DOMAIN f) \cup {k} |-> IF x = k THEN v ELSE f[x]]

InSeq(s, x) == \E i \in 1..Len(s) : s[i] = x

\* NetworkAgent.net_power_usage_kw / a leaf's net_power_usage_kw
net_power_usage_kw(n) ==
    IF n \in Networks THEN SumValues(children[n]) ELSE power[n]

\* a report that carries the live power whatever the running flag is
ReportValueUnmasked(isRunning, live) == live

\* SendPowerUpdateBehaviour.run: the value of a power report
ReportValue(isRunning, live) == IF isRunning THEN live ELSE 0

\* an info field that carries the live power whatever the running flag is
InfoValueUnmasked(isRunning, live) == live

\* SimpleAgent.get_info_message: the net_power_usage_kw field
InfoValue(isRunning, live) == IF isRunning THEN live ELSE 0

\* the part of the info body the model keeps, built while the running flag
\* is isRunning
InfoBody(n, isRunning) ==
    [running |-> isRunning,
     net_power_usage_kw |-> InfoValue(isRunning, net_power_usage_kw(n)),
     parent |-> parent[n],
     children |-> IF n \in Networks THEN DOMAIN children[n] ELSE {}]

\* a message as sent, with the sender's flag and live power when it was built
InfoMessage(n, isRunning) ==
    [type |-> "info", sender |-> n, to |-> None,
     value |-> InfoBody(n, isRunning).net_power_usage_kw,
     running |-> isRunning, live |-> net_power_usage_kw(n)]

PowerUpdateMessage(n) ==
    [type |-> "power_update", sender |-> n, to |-> parent[n],
     value |-> ReportValue(running[n], net_power_usage_kw(n)),
     running |-> running[n], live |-> net_power_usage_kw(n)]

\* NetworkAgent._get_congestion_message, addressed by send_data
CongestionMessage(n, s, value) ==
    [type |-> "congestion", sender |-> n, to |-> s, value |-> value]

\* SubscriptionReceiverBehaviour.run: msg.sender not in queue["subscribers"]
NotSubscribedAlways(queue_subscribers, sender) == TRUE
NotSubscribed(queue_subscribers, sender) == ~InSeq(queue_subscribers, sender)

\* values a caller may pass as recipient that are not addresses (JID objects):
\* None, the empty string, and a string that holds an address
NotJID == {None, "", "'cpo'"}
\* isinstance(recipient, JID), and Python's truth value of a recipient that is
\* not a JID
IsJID(recipient) == recipient \notin NotJID
Falsy(recipient) == recipient \in {None, ""}

\* SubscriptionReceiverBehaviour._get_recipients for a queue the agent has:
\* the call raises ValueError
get_recipients_raises(recipient) == ~IsJID(recipient) /\ ~Falsy(recipient)

\* SubscriptionReceiverBehaviour._get_recipients: the given recipient alone,
\* or every subscriber of the queue when "not recipient" holds
get_recipientsAll(queue_subscribers, recipient) == queue_subscribers
get_recipients(queue_subscribers, recipient) ==
    IF IsJID(recipient) THEN <<recipient>> ELSE queue_subscribers

\* SubscriptionReceiverBehaviour.send_data, from the message the queue's
\* message_func built once: a copy per recipient, addressed to it, in order
send_dataShared(recipients, msg) ==
    [i \in 1..Len(recipients) |-> [msg EXCEPT !.to = recipients[Len(recipients)]]]
send_data(recipients, msg) ==
    [i \in 1..Len(recipients) |-> [msg EXCEPT !.to = recipients[i]]]

\* send_data for the congestion queue of n
Publish(n, recipients, value) ==
    send_data(recipients, CongestionMessage(n, None, value))

\* ---------------------------------------------------------------------------
\* Python floats, kept exact: a number is <<numerator, denominator>> in lowest
\* terms with a positive denominator
Abs(x) == IF x < 0 THEN -x ELSE x

RECURSIVE Gcd(_, _)
Gcd(a, b) == IF b = 0 THEN a ELSE Gcd(b, a % b)

Rat(n, d) ==
    LET g == Gcd(Abs(n), Abs(d))
        sgn == IF d < 0 THEN -1 ELSE 1
    IN <<(sgn * n) \div g, (sgn * d) \div g>>

Float(i) == <<i, 1>>
RAdd(a, b) == Rat(a[1] * b[2] + b[1] * a[2], a[2] * b[2])
RSub(a, b) == Rat(a[1] * b[2] - b[1] * a[2], a[2] * b[2])
RMul(a, b) == Rat(a[1] * b[1], a[2] * b[2])
RDiv(a, b) == Rat(a[1] * b[2], a[2] * b[1])
RLess(a, b) == a[1] * b[2] < b[1] * a[2]
RMax(a, b) == IF RLess(a, b) THEN b ELSE a
RMin(a, b) == IF RLess(b, a) THEN b ELSE a
RAbs(a) == <<Abs(a[1]), a[2]>>

\* the agent's behaviours are scheduled (between _async_start and _async_stop)
Runnable(n) == phase[n] \in {"alive", "stopping"}

\* no behaviour is added
AddReportTaskNever(tasks, n) == tasks

\* ComponentAgent.send_power_update_to_parent: one more SendPowerUpdateBehaviour.
\* Without a parent the behaviour returns as soon as it runs, so it is not
\* kept as a pending task.
AddReportTask(tasks, n) ==
    IF parent[n] = None THEN tasks ELSE [tasks EXCEPT ![n] = @ + 1]

\* ---------------------------------------------------------------------------
\* Init: the agents as constructed by the orchestrator, none started
\* ---------------------------------------------------------------------------
GridInit ==
    /\ phase = [n \in Nodes |-> "new"]
    /\ running = [n \in Nodes |-> FALSE]
    /\ \E t \in Topologies : parent = t.parent /\ order = t.order
    /\ regTask = [n \in Nodes |-> parent[n] # None]
    /\ reportTasks = [n \in Nodes |-> 0]
    /\ power = [n \in Leaves |-> InitialPower[n]]
    /\ children = [n \in Networks |-> <<>>]
    /\ current_congestion = [n \in Networks |-> 0]
    /\ power_updates = [n \in Networks |-> <<>>]
    /\ subscribers = [n \in Networks |-> <<>>]
    /\ regBox = [n \in Networks |-> <<>>]
    /\ powBox = [n \in Networks |-> <<>>]
    /\ last_info = [n \in Nodes |-> <<>>]
    /\ changes = 0
    /\ infoCycles = 0
    /\ emitted = <<>>
    /\ finalSent = [n \in Nodes |-> FALSE]
    /\ lastHandled = [n \in Networks |-> <<>>]
    /\ restarts = 0

\* the clock authority as constructed: anchors at the construction instant and
\* the configured start, the configured rate, a one-second info period
ClockInit ==
    /\ now = 0
    /\ clockPc = "new"
    /\ real_broadcast_timestamp = 0
    /\ sim_broadcast_timestamp = SimStart
    /\ original_rate \in ConfiguredRates
    /\ rate = original_rate
    /\ period = InfoPeriod
    /\ timeTasks = 0
    /\ wakeAt = 0
    /\ time_subscribers = <<>>
    /\ rateChanges = 0
    /\ subscribeCount = [s \in Subs |-> 0]
    /\ syncCount = [s \in Subs |-> 0]
    /\ strayRequests = 0

\* the grid specifications leave the clock as constructed
ClockIdle == ClockInit /\ original_rate = 1

\* the subscriber as constructed: TimeKeepingMixin.__init__ anchors both
\* timestamps at the construction instant with rate 1, and
\* SubscriptionBehaviour.__init__ enters one request per subscription
ClientInit ==
    /\ request_dict = [k \in subscriptions_dict |-> 0]
    /\ subPc = "send"
    /\ subBox = <<>>
    /\ deliveries = 0
    /\ keeper = [real_broadcast_timestamp |-> 0,
                 sim_broadcast_timestamp |-> 0,
                 rate |-> 1,
                 period |-> InfoPeriod]
    /\ sim_read = <<>>
    /\ handlerCalls = [k \in subscriptions_dict |-> 0]
    /\ timedOut = {}
    /\ pausedFrom = <<>>

\* the fleet coordinator and the charging stations as constructed
ControlInit ==
    /\ congestion = [a \in CongestionConsumers |-> Float(0)]
    /\ charging_stations_charge_speed = <<>>
    /\ charging_stations_new_charge_speed = <<>>
    /\ cpoPc = "running"
    /\ cpoBox = <<>>
    /\ csBox = [s \in ManagedStations |-> <<>>]
    /\ charge_speed = [s \in Stations |-> Float(0)]
    /\ is_charging = [s \in Stations |-> TRUE]
    /\ cycles = 0
    /\ rounds = 0
    /\ sends = 0
    /\ congestionChanges = 0

\* what a section of the configuration may hold for an asset: a known type
\* and a maximum power, a type the factory does not know, or no maximum power
AssetConfigs == {"ok", "unknown_type", "no_max_power"}

\* the orchestrator before it unpacks the configuration, and the parent
\* setter never called from outside a constructor
BuildInit ==
    /\ asset_config \in [Leaves -> AssetConfigs]
    /\ prosumption_agents = <<>>
    /\ warnings = <<>>
    /\ parentCalls = 0
    /\ parentErrors = <<>>

\* a configuration whose assets are all well described
BuildIdle == BuildInit /\ asset_config = [n \in Leaves |-> "ok"]

Init == GridInit /\ ClockIdle /\ ClientInit /\ ControlInit /\ BuildIdle

\* ---------------------------------------------------------------------------
\* Lifecycle
\* ---------------------------------------------------------------------------
\* the orchestrator awaits each start() before it constructs the next agent;
\* an asset whose construction failed was skipped
StartAllowed(n) ==
    \E i \in 1..Len(order) :
        /\ order[i] = n
        /\ \A j \in 1..(i - 1) : phase[order[j]] \in {"alive", "skipped"}

\* SimpleAgent.start: the running flag is set, setup() runs (ComponentAgent.setup
\* adds one SendPowerUpdateBehaviour), the behaviours are started and
\* send_update("info") publishes the info message.  No message can reach the
\* agent before its start() returns (its children are constructed later), so
\* the info body is the one of the state setup() leaves.
Start(n) ==
    /\ phase[n] = "new"
    /\ StartAllowed(n)
    /\ phase' = [phase EXCEPT ![n] = "alive"]
    /\ running' = [running EXCEPT ![n] = TRUE]
    /\ reportTasks' = AddReportTask(reportTasks, n)
    /\ emitted' = <<InfoMessage(n, TRUE)>>
    /\ UNCHANGED <<parent, order, regTask, power, children, current_congestion,
                   power_updates, subscribers, regBox, powBox, 
                   last_info, changes, infoCycles, finalSent, lastHandled>>
    /\ UNCHANGED <<clockVars, clientVars, ctrlVars, restarts, buildVars>>

\* a factory and constructor that accept every section
AssetValidAlways(config) == TRUE

\* AgentFactory._get_asset_class raises ValueError for a type it does not
\* know, BaseProsumptionAgent.__init__ raises ValueError without a maximum
\* power: create_asset returns an agent for any other section
AssetValid(config) == config \notin {"unknown_type", "no_max_power"}

\* SimulationRunner._unpack_asset for the section of asset n: the asset is
\* created, started (SimpleAgent.start, as in Start) and appended to the
\* list; a ValueError or TypeError of the construction is caught and logged
\* as a warning, and the orchestrator goes on with the next section.  Before
\* its construction parent and regTask hold what the constructor is given.
UnpackAsset(n) ==
    /\ n \in Leaves
    /\ phase[n] = "new"
    /\ StartAllowed(n)
    /\ IF AssetValid(asset_config[n])
       THEN /\ phase' = [phase EXCEPT ![n] = "alive"]
            /\ running' = [running EXCEPT ![n] = TRUE]
            /\ reportTasks' = AddReportTask(reportTasks, n)
            /\ emitted' = <<InfoMessage(n, TRUE)>>
            /\ prosumption_agents' = Append(prosumption_agents, n)
            /\ UNCHANGED warnings
       ELSE /\ phase' = [phase EXCEPT ![n] = "skipped"]
            /\ warnings' = Append(warnings, n)
            /\ emitted' = <<>>
            /\ UNCHANGED <<running, reportTasks, prosumption_agents>>
    /\ UNCHANGED <<parent, order, regTask, power, children, current_congestion,
                   power_updates, subscribers, regBox, powBox,
                   last_info, changes, infoCycles, finalSent, lastHandled>>
    /\ UNCHANGED <<clockVars, clientVars, ctrlVars, restarts, asset_config,
                   parentCalls, parentErrors>>

\* what a caller may assign to ComponentAgent.parent: an address (JID) or a
\* string, each with or without a localpart and a domain, the string as
\* JID.fromstr splits it, or a value that is neither
ParentValues ==
    [kind : {"JID", "str", "int"}, localpart : {"", "main"},
     domain : {"", "x"}]

\* a setter that accepts every value
ParentErrorNever(value) == "none"

\* ComponentAgent.parent setter: the error it raises for value, "none" if it
\* stores the value
ParentError(value) ==
    IF value.kind \notin {"JID", "str"} THEN "TypeError"
    ELSE IF value.localpart = "" \/ value.domain = "" THEN "ValueError"
    ELSE "none"

\* ComponentAgent.parent setter called on a started component n with value; a
\* stored parent comes with a new RegisterAtParentBehaviour (followed here
\* once the previous one has run)
SetParent(n, value) ==
    /\ phase[n] = "alive"
    /\ parentCalls < MaxParentCalls
    /\ parentCalls' = parentCalls + 1
    /\ IF ParentError(value) # "none"
       THEN /\ parentErrors' = Append(parentErrors, ParentError(value))
            /\ UNCHANGED <<parent, regTask>>
       ELSE /\ ~regTask[n]
            /\ parent' = [parent EXCEPT ![n] = value.localpart]
            /\ regTask' = [regTask EXCEPT ![n] = TRUE]
            /\ UNCHANGED parentErrors
    /\ emitted' = <<>>
    /\ UNCHANGED <<phase, running, order, reportTasks, power, children,
                   current_congestion, power_updates, subscribers, regBox,
                   powBox, last_info, changes, infoCycles, finalSent,
                   lastHandled>>
    /\ UNCHANGED <<clockVars, clientVars, ctrlVars, restarts, asset_config,
                   prosumption_agents, warnings>>

\* SimpleAgent.start called on a stopped agent: the running flag is set
\* before anything else.  What _async_start does with an agent that was
\* stopped is the agent library's: either the agent comes up again (setup()
\* runs, the info message is published) or the call fails and the agent
\* stays down.
Restart(n, up) ==
    /\ phase[n] = "stopped"
    /\ restarts < MaxRestarts
    /\ restarts' = restarts + 1
    /\ running' = [running EXCEPT ![n] = TRUE]
    /\ IF up
       THEN /\ phase' = [phase EXCEPT ![n] = "alive"]
            /\ reportTasks' = AddReportTask(reportTasks, n)
            /\ emitted' = <<InfoMessage(n, TRUE)>>
       ELSE /\ emitted' = <<>>
            /\ UNCHANGED <<phase, reportTasks>>
    /\ UNCHANGED <<parent, order, regTask, power, children, current_congestion,
                   power_updates, subscribers, regBox, powBox,
                   last_info, changes, infoCycles, finalSent, lastHandled>>
    /\ UNCHANGED <<clockVars, clientVars, ctrlVars, buildVars>>

\* the orchestrator stops the agents one after the other, once all are
\* started: assets first, then the networks other than main, main last
IsLeaf(n) == n \in Leaves
IsInnerNetwork(n) == n \in Networks /\ n # "main"
IsMain(n) == n = "main"
StopOrder ==
    SelectSeq(order, IsLeaf) \o SelectSeq(order, IsInnerNetwork)
        \o SelectSeq(order, IsMain)

StopAllowed(n) ==
    /\ \A i \in 1..Len(order) : phase[order[i]] \in {"alive", "stopped"}
    /\ \E i \in 1..Len(StopOrder) :
          /\ StopOrder[i] = n
          /\ \A j \in 1..(i - 1) : phase[StopOrder[j]] = "stopped"

\* ComponentAgent.stop and the base SimpleAgent.stop it calls, up to the
\* await in send_update("info"): the flag is cleared, the final report is
\* scheduled, and the info message is built with the flag already false
Stop(n) ==
    /\ phase[n] = "alive"
    /\ StopAllowed(n)
    /\ running' = [running EXCEPT ![n] = FALSE]
    /\ reportTasks' = AddReportTask(reportTasks, n)
    /\ emitted' = <<InfoMessage(n, FALSE)>>
    /\ phase' = [phase EXCEPT ![n] = "stopping"]
    /\ UNCHANGED <<parent, order, regTask, power, children, current_congestion,
                   power_updates, subscribers, regBox, powBox, 
                   last_info, changes, infoCycles, finalSent, lastHandled>>
    /\ UNCHANGED <<clockVars, clientVars, ctrlVars, restarts, buildVars>>

\* SimpleAgent.stop: _async_stop kills every behaviour of the agent, the
\* one-shot behaviours that have not run yet included
AsyncStop(n) ==
    /\ phase[n] = "stopping"
    /\ phase' = [phase EXCEPT ![n] = "stopped"]
    /\ regTask' = [regTask EXCEPT ![n] = FALSE]
    /\ reportTasks' = [reportTasks EXCEPT ![n] = 0]
    /\ emitted' = <<>>
    /\ UNCHANGED <<running, parent, order, power, children, current_congestion,
                   power_updates, subscribers, regBox, powBox, last_info,
                   changes, infoCycles, finalSent, lastHandled>>
    /\ UNCHANGED <<clockVars, clientVars, ctrlVars, restarts, buildVars>>

\* ---------------------------------------------------------------------------
\* One-shot and periodic behaviours of a component
\* ---------------------------------------------------------------------------
\* RegisterAtParentBehaviour.run: the message it builds
RegisterMessageToRoot(n) ==
    [type |-> "register_child", sender |-> n, to |-> "main"]
RegisterMessage(n) ==
    [type |-> "register_child", sender |-> n, to |-> parent[n]]

\* RegisterAtParentBehaviour.run
RunRegister(n) ==
    /\ Runnable(n)
    /\ regTask[n]
    /\ regTask' = [regTask EXCEPT ![n] = FALSE]
    /\ regBox' = [regBox EXCEPT ![RegisterMessage(n).to] = Append(@, n)]
    /\ emitted' = <<RegisterMessage(n)>>
    /\ UNCHANGED <<phase, running, parent, order, reportTasks, power, children,
                   current_congestion, power_updates, subscribers, powBox,  last_info, changes, infoCycles, finalSent,
                   lastHandled>>
    /\ UNCHANGED <<clockVars, clientVars, ctrlVars, restarts, buildVars>>

\* SendPowerUpdateBehaviour.run of an agent with a parent
RunReport(n) ==
    /\ Runnable(n)
    /\ reportTasks[n] > 0
    /\ parent[n] # None
    /\ reportTasks' = [reportTasks EXCEPT ![n] = @ - 1]
    /\ powBox' = [powBox EXCEPT ![parent[n]] =
                     Append(@, <<n, PowerUpdateMessage(n).value>>)]
    /\ emitted' = <<PowerUpdateMessage(n)>>
    /\ finalSent' = [finalSent EXCEPT ![n] = @ \/ phase[n] = "stopping"]
    /\ UNCHANGED <<phase, running, parent, order, regTask, power, children,
                   current_congestion, power_updates, subscribers, regBox,  last_info, changes, infoCycles, lastHandled>>
    /\ UNCHANGED <<clockVars, clientVars, ctrlVars, restarts, buildVars>>

\* a leaf's computed power changes (weather, charging session, correction
\* command); every such change ends with send_power_update_to_parent()
ChangePower(n, v) ==
    /\ n \in Leaves
    /\ phase[n] = "alive"
    /\ changes < MaxChanges
    /\ v # power[n]
    /\ power' = [power EXCEPT ![n] = v]
    /\ reportTasks' = AddReportTask(reportTasks, n)
    /\ changes' = changes + 1
    /\ emitted' = <<>>
    /\ UNCHANGED <<phase, running, parent, order, regTask, children,
                   current_congestion, power_updates, subscribers, regBox,
                   powBox,  last_info, infoCycles, finalSent,
                   lastHandled>>
    /\ UNCHANGED <<clockVars, clientVars, ctrlVars, restarts, buildVars>>

\* a periodic task that takes every body for a new one
InfoChangedAlways(last, new_info) == TRUE

\* PeriodicInfoUpdate.run: the comparison of the recorded body (none recorded
\* yet: the empty sequence) with the body just built
InfoChanged(last, new_info) == last # <<new_info>>

\* PeriodicInfoUpdate.run
PeriodicInfo(n) ==
    /\ Runnable(n)
    /\ infoCycles < MaxInfoCycles
    /\ infoCycles' = infoCycles + 1
    /\ IF InfoChanged(last_info[n], InfoBody(n, running[n]))
       THEN /\ last_info' = [last_info EXCEPT ![n] = <<InfoBody(n, running[n])>>]
            /\ emitted' = <<InfoMessage(n, running[n])>>
       ELSE /\ emitted' = <<>>
            /\ UNCHANGED last_info
    /\ UNCHANGED <<phase, running, parent, order, regTask, reportTasks, power,
                   children, current_congestion, power_updates, subscribers,
                   regBox, powBox,  changes, finalSent, lastHandled>>
    /\ UNCHANGED <<clockVars, clientVars, ctrlVars, restarts, buildVars>>

\* ---------------------------------------------------------------------------
\* Behaviours of a network node
\* ---------------------------------------------------------------------------
\* RegistrationReceiveBehaviour.run: the child-power map after the
\* registration of child c
RegisterChildOnce(f, c) == IF c \in DOMAIN f THEN f ELSE DictSet(f, c, 0)
RegisterChild(f, c) == DictSet(f, c, 0)

\* RegistrationReceiveBehaviour.run with a message
HandleRegistration(n) ==
    /\ n \in Networks
    /\ Runnable(n)
    /\ regBox[n] # <<>>
    /\ LET c == Head(regBox[n])
       IN /\ children' = [children EXCEPT ![n] = RegisterChild(@, c)]
          /\ lastHandled' = [lastHandled EXCEPT ![n] = DictSet(@, c, 0)]
    /\ regBox' = [regBox EXCEPT ![n] = Tail(@)]
    /\ emitted' = <<>>
    /\ UNCHANGED <<phase, running, parent, order, regTask, reportTasks, power,
                   current_congestion, power_updates, subscribers, powBox,  last_info, changes, infoCycles, finalSent>>
    /\ UNCHANGED <<clockVars, clientVars, ctrlVars, restarts, buildVars>>

\* a report added to the child's previous value instead of replacing it
StoreReportAdding(f, c, v) ==
    DictSet(f, c, IF c \in DOMAIN f THEN f[c] + v ELSE v)

\* the child-power map after a power_update of value v from child c
StoreReport(f, c, v) == DictSet(f, c, v)

\* PowerUpdateReceiveBehaviour.run with a message.  The root recomputes the
\* congestion, saves the update and publishes the congestion: the message and
\* its recipients are fixed before send_update first suspends, and all that
\* follows the await is send_power_update_to_parent(), which every node ends
\* with.
HandlePowerUpdate(n) ==
    /\ n \in Networks
    /\ Runnable(n)
    /\ powBox[n] # <<>>
    /\ LET c == Head(powBox[n])[1]
           v == Head(powBox[n])[2]
           newChildren == StoreReport(children[n], c, v)
       IN /\ children' = [children EXCEPT ![n] = newChildren]
          /\ lastHandled' = [lastHandled EXCEPT ![n] = DictSet(@, c, v)]
          /\ IF parent[n] = None
             THEN /\ current_congestion' =
                       [current_congestion EXCEPT ![n] = SumValues(newChildren)]
                  /\ power_updates' =
                       [power_updates EXCEPT ![n] = Append(@, SumValues(newChildren))]
                  /\ emitted' = Publish(n, subscribers[n], SumValues(newChildren))
                  /\ reportTasks' = AddReportTask(reportTasks, n)
             ELSE /\ reportTasks' = AddReportTask(reportTasks, n)
                  /\ emitted' = <<>>
                  /\ UNCHANGED <<current_congestion, power_updates>>
    /\ powBox' = [powBox EXCEPT ![n] = Tail(@)]
    /\ UNCHANGED <<phase, running, parent, order, regTask, power, subscribers,
                   regBox, last_info, changes, infoCycles, finalSent>>
    /\ UNCHANGED <<clockVars, clientVars, ctrlVars, restarts, buildVars>>

\* SubscriptionReceiverBehaviour.run with a subscribe request of s for the
\* congestion queue of the main network
HandleSubscribe(n, s) ==
    /\ n = "main"
    /\ Runnable(n)
    /\ IF NotSubscribed(subscribers[n], s)
       THEN /\ subscribers' = [subscribers EXCEPT ![n] = Append(@, s)]
            /\ emitted' = Publish(n, get_recipients(subscribers'[n], s),
                                  current_congestion[n])
       ELSE /\ emitted' = <<>>
            /\ UNCHANGED subscribers
    /\ UNCHANGED <<phase, running, parent, order, regTask, reportTasks, power,
                   children, current_congestion, power_updates, regBox,
                   powBox,  last_info, changes, infoCycles,
                   finalSent, lastHandled>>
    /\ UNCHANGED <<clockVars, clientVars, ctrlVars, restarts, buildVars>>

\* ---------------------------------------------------------------------------
\* The aggregation tree and the component lifecycle
\* ---------------------------------------------------------------------------
\* ---------------------------------------------------------------------------
\* The virtual clock (TimeAgent)
\* ---------------------------------------------------------------------------
\* TimeKeepingMixin.sim_timestamp for given anchors, rate and real instant
SimTimestampFromZero(real_anchor, sim_anchor, r, t) == sim_anchor + r * t
SimTimestamp(real_anchor, sim_anchor, r, t) == sim_anchor + r * (t - real_anchor)

\* the clock authority's derived sim time at the current real instant
SimTime ==
    SimTimestamp(real_broadcast_timestamp, sim_broadcast_timestamp, rate, now)

\* TimeKeepingMixin.rate setter: the period of a periodic behaviour after the
\* rate went from previous_rate to new_rate
RescalePeriodDirect(p, previous_rate, new_rate) ==
    LET original_period == previous_rate * p
    IN IF new_rate = 0 THEN original_period ELSE original_period * new_rate
RescalePeriod(p, previous_rate, new_rate) ==
    LET original_period == previous_rate * p
    IN IF new_rate = 0 THEN original_period ELSE original_period \div new_rate

\* TimeAgent.update_broadcast_timestamps: the real anchor is stored first, and
\* the sim anchor is then derived from the anchors as they stand
ReanchoredReal == now
ReanchoredSim ==
    SimTimestamp(ReanchoredReal, sim_broadcast_timestamp, rate, now)

\* datetime.isoformat(): the instant as an ISO 8601 string
isoformat(t) == <<"ISO", t>>

\* TimeKeepingMixin._to_datetime of the ISO string a time message carries:
\* datetime.fromisoformat
to_datetime(timestamp) == timestamp[2]

\* TimeKeepingMixin.process_time_message on the keeping state k: the anchors
\* of the message are stored, then the rate, whose setter rescales the period
process_time_message(k, data) ==
    [real_broadcast_timestamp |-> to_datetime(data.real_broadcast_time),
     sim_broadcast_timestamp |-> to_datetime(data.sim_broadcast_time),
     rate |-> data.rate,
     period |-> RescalePeriod(k.period, k.rate, data.rate)]

\* TimeAgent._get_time_message: the real time is read from the system clock
\* when the message is built, the sim time is the stored sim anchor
TimeMessage(s, sim_anchor) ==
    [type |-> "time", sender |-> TimeAgentJid, to |-> s,
     real_broadcast_time |-> isoformat(now),
     sim_broadcast_time |-> isoformat(sim_anchor),
     rate |-> rate]

\* real time passes
Tick ==
    /\ now < MaxNow
    /\ now' = now + 1
    /\ emitted' = <<>>
    /\ UNCHANGED <<clockPc, real_broadcast_timestamp, sim_broadcast_timestamp,
                   rate, original_rate, period, timeTasks, wakeAt,
                   time_subscribers, rateChanges>>
    /\ UNCHANGED <<subscribeCount, syncCount>>
    /\ UNCHANGED <<gridState, clientVars, ctrlVars, strayRequests, buildVars>>

\* a rate setter that creates no task
SetRateQuiet(new_rate) ==
    /\ rate' = new_rate
    /\ period' = RescalePeriod(period, rate, new_rate)
    /\ timeTasks' = timeTasks

\* TimeAgent.rate setter: TimeKeepingMixin's setter stores the new rate and
\* rescales the periodic behaviours, then a send_update() task is created
SetRate(new_rate) ==
    /\ rate' = new_rate
    /\ period' = RescalePeriod(period, rate, new_rate)
    /\ timeTasks' = timeTasks + 1

\* TimeAgent.setup, at the end of start(): pause_simulation()
TimeSetup ==
    /\ clockPc = "new"
    /\ clockPc' = "paused"
    /\ SetRate(0)
    /\ emitted' = <<>>
    /\ UNCHANGED <<now, real_broadcast_timestamp, sim_broadcast_timestamp,
                   original_rate, wakeAt, time_subscribers, rateChanges>>
    /\ UNCHANGED <<subscribeCount, syncCount>>
    /\ UNCHANGED <<gridState, clientVars, ctrlVars, strayRequests, buildVars>>

\* TimeAgent.resume_simulation up to its sleep
ResumeBegin ==
    /\ clockPc = "paused"
    /\ clockPc' = "sleeping"
    /\ real_broadcast_timestamp' = ReanchoredReal
    /\ sim_broadcast_timestamp' = ReanchoredSim
    /\ wakeAt' = now + ResumeSleep
    /\ emitted' = <<>>
    /\ UNCHANGED <<now, rate, original_rate, period, timeTasks,
                   time_subscribers, rateChanges>>
    /\ UNCHANGED <<subscribeCount, syncCount>>
    /\ UNCHANGED <<gridState, clientVars, ctrlVars, strayRequests, buildVars>>

\* TimeAgent.resume_simulation after its sleep: rate = original_rate
ResumeEnd ==
    /\ clockPc = "sleeping"
    /\ now >= wakeAt
    /\ clockPc' = "resumed"
    /\ SetRate(original_rate)
    /\ emitted' = <<>>
    /\ UNCHANGED <<now, real_broadcast_timestamp, sim_broadcast_timestamp,
                   original_rate, wakeAt, time_subscribers, rateChanges>>
    /\ UNCHANGED <<subscribeCount, syncCount>>
    /\ UNCHANGED <<gridState, clientVars, ctrlVars, strayRequests, buildVars>>

\* RateChangeBehaviour.run with a rateChange message carrying new_rate
HandleRateChange(new_rate) ==
    /\ clockPc # "new"
    /\ rateChanges < MaxRateChanges
    /\ rateChanges' = rateChanges + 1
    /\ SetRate(new_rate)
    /\ emitted' = <<>>
    /\ UNCHANGED <<now, clockPc, real_broadcast_timestamp,
                   sim_broadcast_timestamp, original_rate, wakeAt,
                   time_subscribers>>
    /\ UNCHANGED <<subscribeCount, syncCount>>
    /\ UNCHANGED <<gridState, clientVars, ctrlVars, strayRequests, buildVars>>

\* TimeAgent.send_update("time"), the task the rate setter created: re-anchor,
\* then publish the time message to every subscriber
BroadcastTime ==
    /\ timeTasks > 0
    /\ timeTasks' = timeTasks - 1
    /\ real_broadcast_timestamp' = ReanchoredReal
    /\ sim_broadcast_timestamp' = ReanchoredSim
    /\ emitted' = send_data(get_recipients(time_subscribers, None),
                            TimeMessage(None, ReanchoredSim))
    /\ UNCHANGED <<now, clockPc, rate, original_rate, period, wakeAt,
                   time_subscribers, rateChanges>>
    /\ UNCHANGED <<subscribeCount, syncCount>>
    /\ UNCHANGED <<gridState, clientVars, ctrlVars, strayRequests, buildVars>>

\* SubscriptionReceiverBehaviour.run with a subscribe request of s for the
\* time queue: the initial message goes out through send_data, not through
\* TimeAgent.send_update
HandleTimeSubscribe(s) ==
    /\ clockPc # "new"
    /\ subscribeCount[s] < MaxSubscribes
    /\ subscribeCount' = [subscribeCount EXCEPT ![s] = @ + 1]
    /\ IF NotSubscribed(time_subscribers, s)
       THEN /\ time_subscribers' = Append(time_subscribers, s)
            /\ emitted' = send_data(get_recipients(time_subscribers', s),
                                    TimeMessage(None, sim_broadcast_timestamp))
            /\ syncCount' = [syncCount EXCEPT ![s] = @ + 1]
       ELSE /\ emitted' = <<>>
            /\ UNCHANGED <<time_subscribers, syncCount>>
    /\ UNCHANGED <<now, clockPc, real_broadcast_timestamp,
                   sim_broadcast_timestamp, rate, original_rate, period,
                   timeTasks, wakeAt, rateChanges>>
    /\ UNCHANGED <<gridState, clientVars, ctrlVars, strayRequests, buildVars>>

\* SubscriptionReceiverBehaviour.run: the request carries a queue name and
\* the agent has a queue of that name
QueueKnownAlways(q) == TRUE
QueueKnown(q) == q # None /\ q \in TimeAgentQueues

\* SubscriptionReceiverBehaviour.run of the clock authority with a subscribe
\* request of s that carries queue name q, or none: a request without a queue
\* name or for a queue the agent does not have is logged and run() returns;
\* the cyclic behaviour then waits for the next request
HandleSubscribeRequest(s, q) ==
    /\ clockPc # "new"
    /\ IF q \in TimeAgentQueues
       THEN /\ subscribeCount[s] < MaxSubscribes
            /\ subscribeCount' = [subscribeCount EXCEPT ![s] = @ + 1]
            /\ UNCHANGED strayRequests
       ELSE /\ strayRequests < MaxStrays
            /\ strayRequests' = strayRequests + 1
            /\ UNCHANGED subscribeCount
    /\ IF QueueKnown(q) /\ NotSubscribed(time_subscribers, s)
       THEN /\ time_subscribers' = Append(time_subscribers, s)
            /\ emitted' = send_data(get_recipients(time_subscribers', s),
                                    TimeMessage(None, sim_broadcast_timestamp))
            /\ syncCount' = [syncCount EXCEPT ![s] = @ + 1]
       ELSE /\ emitted' = <<>>
            /\ UNCHANGED <<time_subscribers, syncCount>>
    /\ UNCHANGED <<now, clockPc, real_broadcast_timestamp,
                   sim_broadcast_timestamp, rate, original_rate, period,
                   timeTasks, wakeAt, rateChanges>>
    /\ UNCHANGED <<gridState, clientVars, ctrlVars, buildVars>>

\* SubscriptionReceiverBehaviour.send_data of the clock authority's time queue
\* called with the given recipient: _get_recipients raises before the message
\* is built, or the message goes to the recipients it returns
SendData(recipient) ==
    /\ clockPc # "new"
    /\ emitted' = IF get_recipients_raises(recipient)
                  THEN <<>>
                  ELSE send_data(get_recipients(time_subscribers, recipient),
                                 TimeMessage(None, sim_broadcast_timestamp))
    /\ UNCHANGED <<now, clockPc, real_broadcast_timestamp,
                   sim_broadcast_timestamp, rate, original_rate, period,
                   timeTasks, wakeAt, time_subscribers, rateChanges>>
    /\ UNCHANGED <<subscribeCount, syncCount>>
    /\ UNCHANGED <<gridState, clientVars, ctrlVars, strayRequests, buildVars>>

\* the clock authority's time queue, its subscribers, and callers of send_data
PublishNext ==
    \/ Tick
    \/ TimeSetup
    \/ BroadcastTime
    \/ \E s \in Subs, q \in RequestQueues : HandleSubscribeRequest(s, q)
    \/ \E recipient \in Subs \cup NotJID : SendData(recipient)

ClockNext ==
    \/ Tick
    \/ TimeSetup
    \/ ResumeBegin
    \/ ResumeEnd
    \/ \E r \in Rates : HandleRateChange(r)
    \/ BroadcastTime
    \/ \E s \in Subs : HandleTimeSubscribe(s)
    \/ \E s \in Subs, q \in RequestQueues : HandleSubscribeRequest(s, q)

\* the clock authority with its subscribers' requests all well-formed
RateNext ==
    \/ Tick
    \/ TimeSetup
    \/ ResumeBegin
    \/ ResumeEnd
    \/ \E r \in Rates : HandleRateChange(r)
    \/ BroadcastTime
    \/ \E s \in Subs : HandleTimeSubscribe(s)

\* ---------------------------------------------------------------------------
\* The subscriber: SubscriptionBehaviour and the time keeping of its agent
\* ---------------------------------------------------------------------------
\* f without key k (del f[k])
DictDel(f, k) == [x \in (DOMAIN f) \ {k} |-> f[x]]

\* the elements of S in the order a loop visits them
RECURSIVE SeqOf(_)
SeqOf(S) ==
    IF S = {} THEN <<>>
    ELSE LET x == CHOOSE y \in S : TRUE
         IN <<x>> \o SeqOf(S \ {x})

\* send_subscription_request: the request entered at init_time has timed out
ExpiredAtLimit(init_time) == now - init_time >= request_timeout_seconds
Expired(init_time) == now - init_time > request_timeout_seconds

\* send_subscription_request: the subscribe message for request k
SubscribeMessage(k) ==
    [type |-> "subscribe", sender |-> SubscriberJid, to |-> k[1],
     queue |-> k[2], body |-> ""]

\* receive_subscription_message: subscriptions_dict has a handler for the
\* sender and the type of the message
HasHandlerOfAnySender(msg) == \E k \in subscriptions_dict : k[2] = msg.type
HasHandlerWhilePending(msg) == <<msg.sender, msg.type>> \in DOMAIN request_dict
HasHandler(msg) == <<msg.sender, msg.type>> \in subscriptions_dict

\* receive_subscription_message: the request dict after a handled message of
\* subscription k
RemoveRequestNever(d, k) == d
RemoveRequest(d, k) == IF k \in DOMAIN d THEN DictDel(d, k) ELSE d

\* history: the period and rate a pause started from
PausedFromAfter(k, new_rate) ==
    IF k.rate # 0 /\ new_rate = 0 THEN <<k.period, k.rate>> ELSE pausedFrom

\* the time messages that can reach the subscriber at real time t
TimeInputs(t) ==
    {[type |-> "time", sender |-> TimeAgentJid, to |-> SubscriberJid,
      real_broadcast_time |-> isoformat(t),
      sim_broadcast_time |-> isoformat(SimStart),
      rate |-> r] : r \in ConfiguredRates}

\* messages of other behaviours of the agent, which the SubscriptionBehaviour
\* receives too (it is added without a template)
OtherInputs ==
    {[type |-> "congestion", sender |-> TimeAgentJid, to |-> SubscriberJid],
     [type |-> "time", sender |-> "a", to |-> SubscriberJid,
      real_broadcast_time |-> isoformat(0),
      sim_broadcast_time |-> isoformat(SimStart + 5),
      rate |-> 2]}

\* a message of the subscribed topic from the subscribed source whose body is
\* not JSON; the model keeps such a body as the text it is, and every other
\* body as the fields json.loads yields
MalformedInputs ==
    {[type |-> "time", sender |-> TimeAgentJid, to |-> SubscriberJid,
      body |-> "{"]}

\* json.loads(msg.body) raises JSONDecodeError
JsonLoadsRaises(msg) == "body" \in DOMAIN msg

\* real time passes, d seconds at once
Wait(d) ==
    /\ now + d <= MaxWait
    /\ now' = now + d
    /\ emitted' = <<>>
    /\ UNCHANGED <<clockPc, real_broadcast_timestamp, sim_broadcast_timestamp,
                   rate, original_rate, period, timeTasks, wakeAt,
                   time_subscribers, rateChanges, subscribeCount, syncCount>>
    /\ UNCHANGED <<gridState, clientVars, ctrlVars, strayRequests, buildVars>>

\* every message the subscriber may be sent during the run
Inputs == UNION {TimeInputs(t) : t \in 0..MaxWait} \cup OtherInputs

\* a message reaches the mailbox of the SubscriptionBehaviour
Deliver(m) ==
    /\ m \in TimeInputs(now) \cup OtherInputs \cup MalformedInputs
    /\ deliveries < MaxDeliveries
    /\ deliveries' = deliveries + 1
    /\ subBox' = Append(subBox, m)
    /\ emitted' = <<>>
    /\ UNCHANGED <<request_dict, subPc, keeper, sim_read, handlerCalls,
                   timedOut, pausedFrom>>
    /\ UNCHANGED <<gridState, clockVars, ctrlVars, buildVars>>

\* SubscriptionBehaviour.run, first half: send_subscription_request over the
\* pending requests; a timed out request is deleted, any other is sent
SendSubscriptionRequest ==
    /\ subPc = "send"
    /\ subPc' = "receive"
    /\ LET expired == {k \in DOMAIN request_dict : Expired(request_dict[k])}
           kept == SeqOf((DOMAIN request_dict) \ expired)
       IN /\ request_dict' = [k \in (DOMAIN request_dict) \ expired |->
                                 request_dict[k]]
          /\ timedOut' = timedOut \cup expired
          /\ emitted' = [i \in 1..Len(kept) |-> SubscribeMessage(kept[i])]
    /\ UNCHANGED <<subBox, deliveries, keeper, sim_read, handlerCalls,
                   pausedFrom>>
    /\ UNCHANGED <<gridState, clockVars, ctrlVars, buildVars>>

\* SubscriptionBehaviour.run, second half: receive_subscription_message; the
\* receive times out on an empty mailbox, a message with a handler is passed
\* to it (process_time_message) and its request is deleted.  json.loads is
\* called on the body of a message with a handler outside any try: the
\* exception it raises on a body that is not JSON leaves run(), and the agent
\* library ends a behaviour whose run() raises.
ReceiveSubscriptionMessage ==
    /\ subPc = "receive"
    /\ emitted' = <<>>
    /\ IF subBox = <<>>
       THEN /\ subPc' = "send"
            /\ UNCHANGED <<subBox, keeper, handlerCalls, request_dict,
                           pausedFrom>>
       ELSE LET msg == Head(subBox)
                key == <<msg.sender, msg.type>>
            IN /\ subBox' = Tail(subBox)
               /\ IF HasHandler(msg) /\ JsonLoadsRaises(msg)
                  THEN /\ subPc' = "failed"
                       /\ UNCHANGED <<keeper, handlerCalls, request_dict,
                                      pausedFrom>>
                  ELSE IF HasHandler(msg)
                  THEN /\ subPc' = "send"
                       /\ keeper' = process_time_message(keeper, msg)
                       /\ pausedFrom' = PausedFromAfter(keeper, msg.rate)
                       /\ handlerCalls' = [handlerCalls EXCEPT ![key] = @ + 1]
                       /\ request_dict' = RemoveRequest(request_dict, key)
                  ELSE /\ subPc' = "send"
                       /\ UNCHANGED <<keeper, handlerCalls, request_dict,
                                      pausedFrom>>
    /\ UNCHANGED <<deliveries, sim_read, timedOut>>
    /\ UNCHANGED <<gridState, clockVars, ctrlVars, buildVars>>

\* the time data a handler call may carry: a real anchor up to now, a sim
\* anchor and a rate
TimeData ==
    {[real_broadcast_time |-> isoformat(r), sim_broadcast_time |-> isoformat(a),
      rate |-> v] : r \in 0..MaxNow, a \in SimAnchors, v \in Rates}

\* TimeKeepingMixin.process_time_message called with data
ProcessTimeMessage(data) ==
    /\ to_datetime(data.real_broadcast_time) <= now
    /\ keeper' = process_time_message(keeper, data)
    /\ pausedFrom' = PausedFromAfter(keeper, data.rate)
    /\ emitted' = <<>>
    /\ UNCHANGED <<request_dict, subPc, subBox, deliveries, sim_read,
                   handlerCalls, timedOut>>
    /\ UNCHANGED <<gridState, clockVars, ctrlVars, buildVars>>

\* TimeKeepingMixin.sim_timestamp is read; the anchors, the rate and the
\* instant it was computed from are kept with the value
ReadSimTimestamp ==
    /\ sim_read' = [real_anchor |-> keeper.real_broadcast_timestamp,
                    sim_anchor |-> keeper.sim_broadcast_timestamp,
                    rate |-> keeper.rate,
                    real_now |-> now,
                    value |-> SimTimestamp(keeper.real_broadcast_timestamp,
                                           keeper.sim_broadcast_timestamp,
                                           keeper.rate, now)]
    /\ emitted' = <<>>
    /\ UNCHANGED <<request_dict, subPc, subBox, deliveries, keeper,
                   handlerCalls, timedOut, pausedFrom>>
    /\ UNCHANGED <<gridState, clockVars, ctrlVars, buildVars>>

\* ---------------------------------------------------------------------------
\* The congestion controller: the fleet coordinator and the charging stations
\* ---------------------------------------------------------------------------
\* ChargingStationAgent.net_power_usage_kw of a station whose flag is charging
\* and whose setpoint is speed
station_net_power_usage_kw(charging, speed) ==
    IF charging THEN RMul(speed, Float(factor)) ELSE Float(0)

\* ChargingStationAgent.smart_charging: the setpoint after one correction by
\* congestion value c of a station with setpoint speed and capacity cap
smart_charging(c, speed, cap) ==
    IF RLess(Float(0), c)
    THEN RMax(Rat(SetpointFloorThousandths, 1000),
              RSub(speed, RMul(c, Float(congestion_reduction_factor))))
    ELSE IF RLess(c, Float(0))
    THEN RMin(RAdd(speed,
                   RSub(Float(1), RDiv(RAbs(c), Float(OversupplyScale)))),
              cap)
    ELSE speed

\* ChargingStationAgent._get_power_usage_message
PowerUsageMessage(s, charging) ==
    [type |-> "cs_power_usage", sender |-> s, to |-> CpoJid, CS |-> s,
     value |-> station_net_power_usage_kw(charging, charge_speed[s]),
     is_charging |-> charging]

\* ChargingStationBehaviour.run of a smart station: the charging flag follows
\* the simulated hour, a station with a coordinator reports to it, a station
\* without one corrects its own setpoint while it is charging.  The report to
\* the parent that ends the cycle belongs to the aggregation tree.  The
\* coordinator's receiving behaviour waits on its mailbox without a timeout and
\* takes a report before the next one is sent, a tenth of a second later.
ChargingStationCycle(s, charging) ==
    /\ cycles < MaxCycles
    /\ cpoBox = <<>>
    /\ cycles' = cycles + 1
    /\ is_charging' = [is_charging EXCEPT ![s] = charging]
    /\ IF s \in ManagedStations
       THEN /\ cpoBox' = Append(cpoBox, PowerUsageMessage(s, charging))
            /\ emitted' = <<PowerUsageMessage(s, charging)>>
            /\ UNCHANGED charge_speed
       ELSE /\ charge_speed' =
                 [charge_speed EXCEPT ![s] =
                     IF charging
                     THEN smart_charging(congestion[s], @,
                                         max_power_usage_kw[s])
                     ELSE @]
            /\ emitted' = <<>>
            /\ UNCHANGED cpoBox
    /\ UNCHANGED <<congestion, charging_stations_charge_speed,
                   charging_stations_new_charge_speed, cpoPc, csBox, rounds,
                   sends, congestionChanges>>
    /\ UNCHANGED <<gridState, clockVars, clientVars, buildVars>>

\* _process_congestion_message of a consumer of the congestion topic
ProcessCongestionMessage(a, c) ==
    /\ congestionChanges < MaxCongestionChanges
    /\ congestionChanges' = congestionChanges + 1
    /\ congestion' = [congestion EXCEPT ![a] = Float(c)]
    /\ emitted' = <<>>
    /\ UNCHANGED <<charging_stations_charge_speed,
                   charging_stations_new_charge_speed, cpoPc, cpoBox, csBox,
                   charge_speed, is_charging, cycles, rounds, sends>>
    /\ UNCHANGED <<gridState, clockVars, clientVars, buildVars>>

\* the index of station cs in a list of the coordinator, 0 if it has none
IndexOf(list, cs) ==
    IF \E i \in 1..Len(list) : list[i].CS = cs
    THEN CHOOSE i \in 1..Len(list) : list[i].CS = cs
    ELSE 0

\* CpoReceiveCSInfoBehaviour.add_power_usage
add_power_usage(list, msg) ==
    LET entry == [CS |-> msg.CS, value |-> msg.value,
                  is_charging |-> msg.is_charging]
    IN IF IndexOf(list, msg.CS) # 0
       THEN [list EXCEPT ![IndexOf(list, msg.CS)] = entry]
       ELSE Append(list, entry)

\* CpoReceiveCSInfoBehaviour.run with a power usage message
CpoReceiveCSInfo ==
    /\ cpoBox # <<>>
    /\ cpoBox' = Tail(cpoBox)
    /\ charging_stations_charge_speed' =
           add_power_usage(charging_stations_charge_speed, Head(cpoBox))
    /\ emitted' = <<>>
    /\ UNCHANGED <<congestion, charging_stations_new_charge_speed, cpoPc, csBox,
                   charge_speed, is_charging, cycles, rounds, sends,
                   congestionChanges>>
    /\ UNCHANGED <<gridState, clockVars, clientVars, buildVars>>

\* a reduction that takes the same amount from every load
distribute_power_reductionEvenly(total_demand, c, current_power) ==
    [i \in 1..Len(current_power) |->
        RMax(Float(0),
             RSub(current_power[i], RDiv(c, Float(Len(current_power)))))]

\* CpoAgent.distribute_power_reduction, reduction_factor 1
distribute_power_reduction(total_demand, c, current_power) ==
    IF ~RLess(Float(0), c) /\ ~RLess(Float(0), total_demand)
    THEN current_power
    ELSE LET total_reduction == RMul(c, Float(1))
             reduction_proportion ==
                 IF total_demand # Float(0)
                 THEN RDiv(total_reduction, total_demand)
                 ELSE Float(0)
         IN [i \in 1..Len(current_power) |->
                RMax(Float(0),
                     RMul(current_power[i],
                          RSub(Float(1), reduction_proportion)))]

\* CpoAgent.distribute_power_increase, increase_factor 1
distribute_power_increase(c, current_power, num_charging_stations) ==
    IF num_charging_stations > 0
    THEN LET increase_proportion ==
                 RMul(RDiv(RAbs(c), Float(num_charging_stations)), Float(1))
         IN [i \in 1..Len(current_power) |->
                RAdd(current_power[i], increase_proportion)]
    ELSE current_power

\* the sum of a sequence of numbers
RECURSIVE RSum(_)
RSum(q) == IF q = <<>> THEN Float(0) ELSE RAdd(Head(q), RSum(Tail(q)))

\* change_charging_speed: the demands the coordinator knows, their sum and
\* the number of stations reported charging
CurrentPower(reports) == [i \in 1..Len(reports) |-> reports[i].value]
TotalDemand(reports) == RSum(CurrentPower(reports))
NumCharging(reports) ==
    Cardinality({i \in 1..Len(reports) : reports[i].is_charging})

\* change_charging_speed: new_power, for a congestion value other than zero
NewPower(reports, c) ==
    IF RLess(Float(0), c)
    THEN distribute_power_reduction(TotalDemand(reports), c,
                                    CurrentPower(reports))
    ELSE distribute_power_increase(c, CurrentPower(reports),
                                   NumCharging(reports))

\* change_charging_speed: the commanded values after the loop has stored
\* new_power[i..] for the stations of the reports
RECURSIVE StoreNewPower(_, _, _, _)
StoreNewPower(commands, reports, new_power, i) ==
    IF i > Len(reports) THEN commands
    ELSE LET cs == reports[i].CS
             entry == [CS |-> cs, power |-> new_power[i]]
             stored == IF IndexOf(commands, cs) # 0
                       THEN [commands EXCEPT ![IndexOf(commands, cs)] = entry]
                       ELSE Append(commands, entry)
         IN StoreNewPower(stored, reports, new_power, i + 1)

\* CpoBehaviour.run: one round of change_charging_speed.  Without a report
\* the round returns at once.  With a congestion of zero new_power is never
\* assigned and the first new_power[i] raises, before any command is stored:
\* the exception ends the behaviour.
CpoRound ==
    /\ cpoPc = "running"
    /\ rounds < MaxRounds
    /\ rounds' = rounds + 1
    /\ emitted' = <<>>
    /\ IF charging_stations_charge_speed = <<>>
       THEN UNCHANGED <<charging_stations_new_charge_speed, cpoPc>>
       ELSE IF congestion[CpoJid] = Float(0)
       THEN /\ cpoPc' = "failed"
            /\ UNCHANGED charging_stations_new_charge_speed
       ELSE /\ charging_stations_new_charge_speed' =
                 StoreNewPower(charging_stations_new_charge_speed,
                               charging_stations_charge_speed,
                               NewPower(charging_stations_charge_speed,
                                        congestion[CpoJid]),
                               1)
            /\ UNCHANGED cpoPc
    /\ UNCHANGED <<congestion, charging_stations_charge_speed, cpoBox, csBox,
                   charge_speed, is_charging, cycles, sends, congestionChanges>>
    /\ UNCHANGED <<gridState, clockVars, clientVars, buildVars>>

\* CpoSendCsNewChargingSpeed.run: the message for one commanded value
NewChargingSpeedMessage(entry) ==
    [thread |-> "new-charging-speed", sender |-> CpoJid, to |-> entry.CS,
     new_charging_speed |-> entry.power]

\* CpoSendCsNewChargingSpeed.run with commanded values: one message per
\* value.  The stations' receiving behaviours wait on their mailboxes and have
\* taken the messages of the cycle before, a tenth of a second earlier.
CpoSendCsNewChargingSpeed ==
    /\ charging_stations_new_charge_speed # <<>>
    /\ \A s \in ManagedStations : csBox[s] = <<>>
    /\ sends < MaxSends
    /\ sends' = sends + 1
    /\ emitted' = [i \in 1..Len(charging_stations_new_charge_speed) |->
                     NewChargingSpeedMessage(
                         charging_stations_new_charge_speed[i])]
    /\ csBox' = [s \in ManagedStations |->
                    IF IndexOf(charging_stations_new_charge_speed, s) # 0
                    THEN Append(csBox[s],
                                NewChargingSpeedMessage(
                                    charging_stations_new_charge_speed[
                                        IndexOf(charging_stations_new_charge_speed, s)]))
                    ELSE csBox[s]]
    /\ UNCHANGED <<congestion, charging_stations_charge_speed,
                   charging_stations_new_charge_speed, cpoPc, cpoBox,
                   charge_speed, is_charging, cycles, rounds,
                   congestionChanges>>
    /\ UNCHANGED <<gridState, clockVars, clientVars, buildVars>>

\* ChargingStationCpoNewChargeSpeed.run with a message: a charging station
\* takes the commanded value, cut to its capacity; a station that is not
\* charging drops the message.  The report to the parent that ends the cycle
\* belongs to the aggregation tree.
ChargingStationCpoNewChargeSpeed(s) ==
    /\ s \in ManagedStations
    /\ csBox[s] # <<>>
    /\ csBox' = [csBox EXCEPT ![s] = Tail(@)]
    /\ charge_speed' =
           [charge_speed EXCEPT ![s] =
               IF is_charging[s]
               THEN RMin(Head(csBox[s]).new_charging_speed,
                         max_power_usage_kw[s])
               ELSE @]
    /\ emitted' = <<>>
    /\ UNCHANGED <<congestion, charging_stations_charge_speed,
                   charging_stations_new_charge_speed, cpoPc, cpoBox,
                   is_charging, cycles, rounds, sends, congestionChanges>>
    /\ UNCHANGED <<gridState, clockVars, clientVars, buildVars>>

\* the congestion control loop of the fleet coordinator and its stations
ControlNext ==
    \/ \E s \in ManagedStations, charging \in BOOLEAN :
           ChargingStationCycle(s, charging)
    \/ \E c \in CongestionValues : ProcessCongestionMessage(CpoJid, c)
    \/ CpoReceiveCSInfo
    \/ CpoRound
    \/ CpoSendCsNewChargingSpeed
    \/ \E s \in ManagedStations : ChargingStationCpoNewChargeSpeed(s)

\* the congestion control loop of a station without a coordinator
StationNext ==
    \/ \E s \in DirectStations, charging \in BOOLEAN :
           ChargingStationCycle(s, charging)
    \/ \E s \in DirectStations, c \in SurplusCongestionValues :
           ProcessCongestionMessage(s, c)

\* the subscriber specifications: the grid and the clock authority as
\* constructed and never started
SubscriberInit ==
    /\ GridInit /\ order = Chain.order /\ ClockIdle /\ ClientInit
    /\ ControlInit /\ BuildIdle

\* the subscription protocol, seen from the subscriber
SubscriptionNext ==
    \/ \E d \in WaitSteps : Wait(d)
    \/ \E m \in Inputs : Deliver(m)
    \/ SendSubscriptionRequest
    \/ ReceiveSubscriptionMessage

\* the subscription protocol with a source that also sends a body that is not
\* JSON
MalformedNext ==
    \/ \E d \in WaitSteps : Wait(d)
    \/ \E m \in Inputs \cup MalformedInputs : Deliver(m)
    \/ SendSubscriptionRequest
    \/ ReceiveSubscriptionMessage

\* the time keeping of a rate-aware agent
KeeperNext ==
    \/ Tick
    \/ \E data \in TimeData : ProcessTimeMessage(data)
    \/ ReadSimTimestamp

\* the clock specification: the grid as constructed and never started
ClockSpecInit ==
    /\ GridInit /\ order = Chain.order /\ ClockInit /\ ClientInit
    /\ ControlInit /\ BuildIdle

\* what every grid specification has: lifecycle, one-shot behaviours and the
\* network handlers
CoreNext ==
    \/ \E n \in Nodes : Start(n)
    \/ \E n \in Nodes : Stop(n)
    \/ \E n \in Nodes : AsyncStop(n)
    \/ \E n \in Nodes : RunRegister(n)
    \/ \E n \in Nodes : RunReport(n)
    \/ \E n \in Networks : HandleRegistration(n)
    \/ \E n \in Networks : HandlePowerUpdate(n)

\* aggregation and lifecycle, with leaves whose computed power changes
Next ==
    \/ CoreNext
    \/ \E n \in Leaves, v \in PowerValues : ChangePower(n, v)

\* aggregation and lifecycle, with subscribers of the congestion topic
CongestionNext ==
    \/ CoreNext
    \/ \E s \in Subs : HandleSubscribe("main", s)

\* aggregation and lifecycle, with the periodic info task
InfoNext ==
    \/ CoreNext
    \/ \E n \in Nodes : PeriodicInfo(n)

\* the orchestrator unpacks the configuration of a star: the networks are
\* started, the assets unpacked, and the agents' behaviours run
BuildSpecInit ==
    /\ GridInit /\ order = Star.order /\ ClockIdle /\ ClientInit
    /\ ControlInit /\ BuildInit

BuildNext ==
    \/ \E n \in Networks : Start(n)
    \/ \E n \in Leaves : UnpackAsset(n)
    \/ \E n \in Nodes : RunRegister(n)
    \/ \E n \in Nodes : RunReport(n)
    \/ \E n \in Networks : HandleRegistration(n)
    \/ \E n \in Networks : HandlePowerUpdate(n)

\* the chain is started and its behaviours run, with callers of the parent
\* setter of its asset
ParentNext ==
    \/ \E n \in Nodes : Start(n)
    \/ \E n \in Nodes : RunRegister(n)
    \/ \E n \in Nodes : RunReport(n)
    \/ \E n \in Networks : HandleRegistration(n)
    \/ \E n \in Networks : HandlePowerUpdate(n)
    \/ \E n \in Leaves, value \in ParentValues : SetParent(n, value)

\* aggregation and lifecycle, with start() called on stopped agents
RestartNext ==
    \/ CoreNext
    \/ \E n \in Nodes, up \in BOOLEAN : Restart(n, up)

Spec == Init /\ [][Next]_vars
CoreSpec == Init /\ [][CoreNext]_vars
RestartSpec == Init /\ [][RestartNext]_vars
CongestionSpec == Init /\ [][CongestionNext]_vars
InfoSpec == Init /\ [][InfoNext]_vars
PeriodicSpec == SubscriberInit /\ [][InfoNext]_vars
ClockSpec == ClockSpecInit /\ [][ClockNext]_vars
SubscriptionSpec == SubscriberInit /\ [][SubscriptionNext]_vars
MalformedSpec == SubscriberInit /\ [][MalformedNext]_vars
PublishSpec == ClockSpecInit /\ [][PublishNext]_vars
\* the clock authority on an event loop that runs every task it was given:
\* a created send_update() task is run
BroadcastSpec ==
    ClockSpecInit /\ [][RateNext]_vars /\ WF_vars(BroadcastTime)
KeeperSpec == SubscriberInit /\ [][KeeperNext]_vars
ControlSpec == SubscriberInit /\ [][ControlNext]_vars
StationSpec == SubscriberInit /\ [][StationNext]_vars
BuildSpec == BuildSpecInit /\ [][BuildNext]_vars
ParentSpec == SubscriberInit /\ [][ParentNext]_vars

TypeOK ==
    /\ \A n \in Nodes : reportTasks[n] >= 0
    /\ \A n \in Networks : DOMAIN children[n] \subseteq Nodes

\* ---------------------------------------------------------------------------
\* Properties
\* ---------------------------------------------------------------------------
InOrder(n) == InSeq(order, n)

\* the leaves below network node n
RECURSIVE IsBelow(_, _)
IsBelow(c, n) ==
    /\ parent[c] # None
    /\ \/ parent[c] = n
       \/ IsBelow(parent[c], n)

SubtreeLeaves(n) == {c \in Leaves : InOrder(c) /\ IsBelow(c, n)}

\* nothing is pending anywhere: no behaviour waits to run, no mailbox holds a
\* message
Quiescent ==
    /\ \A n \in Nodes : ~regTask[n] /\ reportTasks[n] = 0
    /\ \A n \in Networks : regBox[n] = <<>> /\ powBox[n] = <<>>

AllRunning == \A n \in Nodes : InOrder(n) => phase[n] = "alive"

FromChild(c, p) ==
    \/ InSeq(regBox[p], c)
    \/ \E i \in 1..Len(powBox[p]) : powBox[p][i][1] = c

\* C1: after any sequence of registrations and power updates handled by a
\* network node, its net power is the sum, over the children it knows, of the
\* value last handled for each child (a report replaces, it is never added).
C1_NetPowerIsSumOfLastHandled ==
    \A n \in Networks :
        /\ DOMAIN children[n] = DOMAIN lastHandled[n]
        /\ net_power_usage_kw(n) = SumOver(lastHandled[n], DOMAIN lastHandled[n])

\* two children known, one of them with a report that replaced an earlier one
C1_Witness ==
    /\ changes = 1
    /\ Cardinality(DOMAIN children["main"]) = 2
    /\ \E c \in DOMAIN children["main"] : children["main"][c] = -1
    /\ net_power_usage_kw("main") = 0

\* C2: with every node running and the leaves reporting a constant power, once
\* every registration and report has been handled each interior node's net
\* power is the sum of the leaf values of its subtree.
C2_StabilizesAtSubtreeSum ==
    (AllRunning /\ Quiescent /\ changes = 0) =>
        \A n \in Networks :
            InOrder(n) => net_power_usage_kw(n) = SumOver(power, SubtreeLeaves(n))

\* C3: the root's current_congestion equals the root's net power after every
\* handled message, registrations included.
C3_CongestionIsRootNetPower ==
    current_congestion["main"] = net_power_usage_kw("main")

\* C4: every step that changes the root's aggregate sends a congestion
\* message carrying the new aggregate to every current subscriber.
C4_AggregateChangePublished ==
    [][net_power_usage_kw("main")' # net_power_usage_kw("main") =>
         \A i \in 1..Len(subscribers'["main"]) :
             CongestionMessage("main", subscribers'["main"][i],
                               net_power_usage_kw("main")') \in Sent']_vars

\* C5: stopping a component clears its running flag and schedules exactly one
\* more power report; a report sent while stopping carries 0 whatever the
\* computed power is; the teardown of the base stop comes only after that.
C5_StopSchedulesZeroReport ==
    [][\A n \in Nodes :
         /\ (phase[n] = "alive" /\ phase'[n] # "alive") =>
                /\ phase'[n] = "stopping"
                /\ ~running'[n]
                /\ parent[n] # None => reportTasks'[n] = reportTasks[n] + 1
         /\ (phase[n] # "stopped" /\ phase'[n] = "stopped") =>
                phase[n] = "stopping" /\ ~running[n]
         /\ \A m \in Sent' :
                (m.type = "power_update" /\ m.sender = n /\ phase[n] = "stopping")
                    => m.value = 0 /\ m.to = parent[n]]_vars

\* a stopping leaf whose computed power is not 0 has sent its final report
C5_Witness ==
    \E m \in Sent :
        /\ m.type = "power_update"
        /\ phase[m.sender] = "stopping"
        /\ m.live # 0
        /\ m.value = 0

\* C6: when a component with a parent has been stopped, its zero-valued final
\* report was sent before the teardown.
C6_FinalReportBeforeTeardown ==
    \A n \in Nodes :
        (phase[n] = "stopped" /\ parent[n] # None) => finalSent[n]

\* C7: once a child has stopped and its parent has handled every message of
\* the child, the parent's value for the child is 0.
C7_StoppedChildContributesZero ==
    \A c \in Nodes :
        LET p == parent[c]
        IN (/\ p # None
            /\ phase[c] = "stopped"
            /\ ~FromChild(c, p)
            /\ c \in DOMAIN children[p])
           => children[p][c] = 0

\* C8: every power value a component puts into a power_update or into the
\* net_power_usage_kw field of an info message is its live net power when
\* its running flag is set at the moment the message is built, and 0
\* otherwise.
C8_ReportedPowerMasked ==
    \A m \in Sent :
        m.type \in {"power_update", "info"} =>
            /\ m.running = running[m.sender]
            /\ m.value = IF m.running THEN m.live ELSE 0

\* an info message of a component that is not running and computes a power
\* other than 0
C8_Witness ==
    \E m \in Sent :
        /\ m.type = "info"
        /\ ~m.running
        /\ m.live # 0
        /\ m.value = 0

\* C9: the clock authority's derived sim time never decreases while the rate
\* is positive and is constant while the rate is 0.
C9_SimTimeMonotone ==
    [][/\ (rate > 0 /\ rate' > 0) => SimTime' >= SimTime
       /\ (rate = 0 /\ rate' = 0) => SimTime' = SimTime]_vars

\* C10: a rate change, and the broadcast it triggers, leave the derived sim
\* time at that real instant as it was.
C10_RateChangeContinuity ==
    [][(now' = now /\ (rate' # rate \/ timeTasks' < timeTasks)) =>
          SimTime' = SimTime]_vars

\* C11: a subscriber that adopts a time message sent by the clock authority
\* (initial sync or broadcast) derives, at the instant of the message and at
\* every later instant, the sim time the clock authority derives, as long as
\* neither changes state.
C11_TimeMessageDescribesTimeline ==
    \A m \in Sent :
        m.type = "time" =>
            LET k == process_time_message(keeper, m)
            IN \A t \in now..(MaxNow + 1) :
                   SimTimestamp(k.real_broadcast_timestamp,
                                k.sim_broadcast_timestamp, k.rate, t)
                   = SimTimestamp(real_broadcast_timestamp,
                                  sim_broadcast_timestamp, rate, t)

\* C12: whenever the derived sim time is read, its value is
\* sim_anchor + rate * (now - real_anchor) for the anchors, the rate and the
\* real instant it was read at.
C12_DerivedSimTime ==
    sim_read # <<>> =>
        sim_read.value = sim_read.sim_anchor
                           + sim_read.rate * (sim_read.real_now - sim_read.real_anchor)

\* a read at rate 2, some time after a real anchor other than 0, from a sim
\* anchor other than 0
C12_Witness ==
    /\ sim_read # <<>>
    /\ sim_read.rate = 2
    /\ sim_read.real_anchor > 0
    /\ sim_read.real_now > sim_read.real_anchor
    /\ sim_read.sim_anchor # 0
    /\ sim_read.value > sim_read.sim_anchor

\* C13: a change of the rate from a nonzero rate to a nonzero rate leaves
\* period * rate as it was (the period becomes period * r_old / r_new).
C13_PeriodTimesRatePreserved ==
    [][(keeper.rate # 0 /\ keeper'.rate # 0) =>
          /\ keeper'.period * keeper'.rate = keeper.period * keeper.rate
          /\ keeper'.period = (keeper.period * keeper.rate) \div keeper'.rate]_vars

\* the rate went from 1 to 2 and the one-second period was halved
C13_Witness ==
    /\ keeper.rate = 2
    /\ keeper.period * 2 = InfoPeriod
    /\ pausedFrom = <<>>

\* C14: when a paused agent (rate 0) resumes at a nonzero rate r2, its period
\* is p * r / r2 for the period p and rate r the pause started from, and is
\* not 0.
C14_ResumeRestoresCadence ==
    [][(keeper.rate = 0 /\ keeper'.rate # 0 /\ pausedFrom # <<>>) =>
          /\ keeper'.period # 0
          /\ keeper'.period * keeper'.rate = pausedFrom[1] * pausedFrom[2]]_vars

\* how often address s is in the subscriber list q
Occurrences(q, s) == Cardinality({i \in 1..Len(q) : q[i] = s})

\* how many of the messages of sequence msgs are addressed to s
AddressedTo(msgs, s) == Cardinality({i \in 1..Len(msgs) : msgs[i].to = s})

\* C15: whatever subscribe requests the publisher has handled, its subscriber
\* list holds every address at most once, and an address whose requests were
\* handled (once or more) was sent exactly one initial message.
C15_SubscriptionIdempotent ==
    \A s \in Subs :
        /\ Occurrences(time_subscribers, s) <= 1
        /\ subscribeCount[s] >= 1 => syncCount[s] = 1

\* an address subscribed twice
C15_Witness ==
    \E s \in Subs :
        /\ subscribeCount[s] = 2
        /\ syncCount[s] = 1
        /\ Occurrences(time_subscribers, s) = 1

\* C16: handling a subscribe request of an address not yet subscribed adds
\* the address to the subscriber list and sends the topic's current message
\* once, to that address and to nobody else.
C16_NewSubscriberGetsOneMessage ==
    [][\A s \in Subs :
         (subscribeCount'[s] # subscribeCount[s] /\ ~InSeq(time_subscribers, s)) =>
             /\ time_subscribers' = Append(time_subscribers, s)
             /\ Len(emitted') = 1
             /\ emitted'[1].type = "time"
             /\ emitted'[1].to = s
             /\ to_datetime(emitted'[1].sim_broadcast_time) = sim_broadcast_timestamp'
             /\ emitted'[1].rate = rate']_vars

\* a second address has subscribed and the message went to it alone
C16_Witness ==
    /\ Len(time_subscribers) = 2
    /\ Len(emitted) = 1
    /\ emitted[1].to = time_subscribers[2]
    /\ syncCount[time_subscribers[2]] = 1

\* the body of a message: all of it but the address
Body(m) == [m EXCEPT !.to = None]

\* C17: a publish without recipient sends one message to each subscriber of
\* the topic, addressed to it, all with the same body, and no message to an
\* address that is not subscribed.
C17_PublishReachesEachSubscriberOnce ==
    [][timeTasks' < timeTasks =>
         /\ \A s \in Subs :
                AddressedTo(emitted', s) = IF InSeq(time_subscribers, s) THEN 1 ELSE 0
         /\ Len(emitted') = Len(time_subscribers)
         /\ \A i, j \in 1..Len(emitted') : Body(emitted'[i]) = Body(emitted'[j])]_vars

\* a broadcast went to two subscribers
C17_Witness ==
    /\ Len(time_subscribers) = 2
    /\ Len(emitted) = 2
    /\ emitted[1].to # emitted[2].to
    /\ \A i \in 1..2 : emitted[i].type = "time"

\* the subscription a message belongs to
KeyOf(msg) == <<msg.sender, msg.type>>

\* how many of the messages of sequence msgs are subscribe requests for k
Requests(msgs, k) ==
    Cardinality({i \in 1..Len(msgs) : /\ msgs[i].type = "subscribe"
                                      /\ msgs[i].to = k[1]
                                      /\ msgs[i].queue = k[2]})

\* the step is a receive of a message of subscription k
Receives(k) ==
    /\ subPc = "receive"
    /\ subPc' = "send"
    /\ subBox # <<>>
    /\ KeyOf(Head(subBox)) = k

\* C18: a received message of one of the subscriptions invokes the handler
\* once, with the parsed body, and removes the pending request; once the
\* handler has been invoked no subscribe request for the subscription is sent.
C18_ReplySatisfiesRequest ==
    [][\A k \in subscriptions_dict :
         /\ Receives(k) =>
                /\ handlerCalls'[k] = handlerCalls[k] + 1
                /\ isoformat(keeper'.real_broadcast_timestamp)
                       = Head(subBox).real_broadcast_time
                /\ isoformat(keeper'.sim_broadcast_timestamp)
                       = Head(subBox).sim_broadcast_time
                /\ keeper'.rate = Head(subBox).rate
                /\ k \notin DOMAIN request_dict'
         /\ handlerCalls[k] > 0 =>
                /\ k \notin DOMAIN request_dict'
                /\ Requests(emitted', k) = 0]_vars

\* the request was satisfied and a later cycle sent nothing
C18_Witness ==
    \E k \in subscriptions_dict :
        /\ handlerCalls[k] = 1
        /\ k \notin DOMAIN request_dict
        /\ k \notin timedOut
        /\ subPc = "receive"
        /\ deliveries = 1
        /\ subBox = <<>>

\* C19: in a cycle, a pending request older than 30 seconds is removed and
\* not sent, a pending request that is not older is sent once and stays
\* pending; a request that is not pending is not sent and stays removed.
C19_TimeoutRemovesRequest ==
    [][\A k \in subscriptions_dict :
         /\ (subPc = "send" /\ subPc' = "receive" /\ k \in DOMAIN request_dict) =>
                IF now - request_dict[k] > request_timeout_seconds
                THEN k \notin DOMAIN request_dict' /\ Requests(emitted', k) = 0
                ELSE k \in DOMAIN request_dict' /\ Requests(emitted', k) = 1
         /\ k \notin DOMAIN request_dict =>
                k \notin DOMAIN request_dict' /\ Requests(emitted', k) = 0]_vars

\* a request was removed by timeout, after it had been re-sent 30 seconds
\* after its creation
C19_Witness ==
    /\ timedOut # {}
    /\ now > request_timeout_seconds
    /\ subPc = "receive"
    /\ emitted = <<>>
    /\ \A k \in timedOut : k \notin DOMAIN request_dict /\ handlerCalls[k] = 0

\* C20 as stated: once a request has been removed by timeout, no handler of
\* its subscription is invoked, whatever arrives.
C20_NoHandlerAfterTimeout ==
    [][\A k \in timedOut : handlerCalls'[k] = handlerCalls[k]]_vars

\* C20 as amended: once a request has been removed by timeout it is never
\* pending again and no subscribe request is sent for it; the handler of its
\* subscription is invoked exactly when a message of that topic from that
\* source is received, and not otherwise.
C20_HandlerOnlyOnArrival ==
    [][\A k \in timedOut :
         /\ k \notin DOMAIN request_dict'
         /\ Requests(emitted', k) = 0
         /\ handlerCalls'[k] = handlerCalls[k] + (IF Receives(k) THEN 1 ELSE 0)]_vars

\* a message of the topic was handled after the request had timed out
C20_Witness ==
    \E k \in timedOut :
        /\ handlerCalls[k] = 1
        /\ k \notin DOMAIN request_dict
        /\ keeper.rate = 2

\* C21: a subscribe request that names no queue, or a queue the publisher does
\* not have, changes no subscriber list, sends nothing and leaves the
\* publisher as it was; a request for the publisher's queue handled after it
\* still subscribes its sender and sends it the initial message.
C21_StrayRequestDropped ==
    [][/\ strayRequests' # strayRequests =>
            /\ time_subscribers' = time_subscribers
            /\ syncCount' = syncCount
            /\ emitted' = <<>>
            /\ clockPc' = clockPc
       /\ \A s \in Subs :
            (/\ strayRequests > 0
             /\ subscribeCount'[s] # subscribeCount[s]
             /\ ~InSeq(time_subscribers, s)) =>
                /\ InSeq(time_subscribers', s)
                /\ AddressedTo(emitted', s) = 1]_vars

\* a stray request was handled in a run that also served a request for the
\* time queue
C21_Witness ==
    /\ strayRequests = 1
    /\ Len(time_subscribers) = 1
    /\ AddressedTo(emitted, time_subscribers[1]) = 1

\* the step is a receive of a message that belongs to no subscription
ReceivesOther ==
    /\ subPc = "receive"
    /\ subPc' = "send"
    /\ subBox # <<>>
    /\ KeyOf(Head(subBox)) \notin subscriptions_dict

\* C22: a received message whose sender and type are not a subscription of
\* the subscriber invokes no handler and leaves the pending requests and the
\* time keeping of the subscriber unchanged.
C22_OtherMessageIgnored ==
    [][ReceivesOther =>
          /\ handlerCalls' = handlerCalls
          /\ request_dict' = request_dict
          /\ keeper' = keeper
          /\ subBox' = Tail(subBox)]_vars

\* one message was delivered and taken, no handler ran and the request is
\* still pending
C22_Witness ==
    /\ deliveries = 1
    /\ subBox = <<>>
    /\ subPc = "send"
    /\ \A k \in subscriptions_dict :
          handlerCalls[k] = 0 /\ k \in DOMAIN request_dict

\* the register_child messages of n among msgs
Registrations(msgs, n) ==
    {i \in 1..Len(msgs) : msgs[i].type = "register_child" /\ msgs[i].sender = n}

\* C23: the parent assigned to a component stays its parent, and the
\* registration the assignment scheduled sends exactly one register_child
\* message, addressed to that parent: a step sends such a message only by
\* running the scheduled registration, which is never scheduled again.
C23_RegistersOnceAtParent ==
    [][\A n \in Nodes :
         /\ parent'[n] = parent[n]
         /\ ~regTask[n] => ~regTask'[n]
         /\ regTask[n] => parent[n] # None
         /\ Registrations(emitted', n) # {} =>
                /\ regTask[n] /\ ~regTask'[n]
                /\ emitted' = <<[type |-> "register_child", sender |-> n,
                                 to |-> parent[n]]>>
                /\ regBox'[parent[n]] = Append(regBox[parent[n]], n)
         /\ (regTask[n] /\ ~regTask'[n] /\ phase'[n] = phase[n]) =>
                Cardinality(Registrations(emitted', n)) = 1]_vars

\* leaf a has registered at net1, its parent, which is not the root
C23_Witness ==
    /\ parent["a"] = "net1"
    /\ ~regTask["a"]
    /\ emitted = <<[type |-> "register_child", sender |-> "a", to |-> "net1"]>>

\* C24: handling a register_child message of child c leaves the node with an
\* entry of value 0 for c, whether or not c was known, and with the entries
\* of its other children as they were.
C24_RegistrationZeroesChild ==
    [][\A n \in Networks :
         (regBox[n] # <<>> /\ regBox'[n] = Tail(regBox[n])) =>
             LET c == Head(regBox[n])
             IN /\ DOMAIN children'[n] = (DOMAIN children[n]) \cup {c}
                /\ children'[n][c] = 0
                /\ \A o \in (DOMAIN children[n]) \ {c} :
                       children'[n][o] = children[n][o]]_vars

\* the registration of leaf a was handled after its first report, of a value
\* other than 0: a runs, all it sent has been handled, and its entry is 0
C24_Witness ==
    /\ parent["a"] = "main"
    /\ phase["a"] = "alive"
    /\ changes = 0
    /\ power["a"] # 0
    /\ ~regTask["a"]
    /\ reportTasks["a"] = 0
    /\ regBox["main"] = <<>>
    /\ powBox["main"] = <<>>
    /\ "a" \in DOMAIN children["main"]
    /\ children["main"]["a"] = 0
    /\ "b" \in DOMAIN children["main"]
    /\ children["main"]["b"] # 0

\* C25: start() of a component with a parent leaves it running with one more
\* power report scheduled, and a scheduled report that runs sends exactly one
\* power_update to the parent, with the component's power.
C25_StartSendsOneReport ==
    [][\A n \in Nodes :
         /\ (phase[n] = "new" /\ phase'[n] = "alive" /\ parent[n] # None) =>
                /\ running'[n]
                /\ reportTasks'[n] = reportTasks[n] + 1
         /\ (reportTasks'[n] = reportTasks[n] - 1 /\ phase'[n] = phase[n]) =>
                /\ Len(emitted') = 1
                /\ emitted'[1].type = "power_update"
                /\ emitted'[1].sender = n
                /\ emitted'[1].to = parent[n]
                /\ running[n] => emitted'[1].value = net_power_usage_kw(n)]_vars

\* leaf a has just sent the report of its start to its parent
C25_Witness ==
    /\ phase["a"] = "alive"
    /\ changes = 0
    /\ reportTasks["a"] = 0
    /\ Len(emitted) = 1
    /\ emitted[1].type = "power_update"
    /\ emitted[1].sender = "a"
    /\ emitted[1].to = parent["a"]
    /\ emitted[1].value = InitialPower["a"]

\* C26: a component that has been stopped stays stopped and its running flag
\* stays false, whatever is called on it.
C26_StoppedIsTerminal ==
    [][\A n \in Nodes :
         (phase[n] = "stopped" /\ ~running[n]) =>
             (phase'[n] = "stopped" /\ ~running'[n])]_vars

\* ---------------------------------------------------------------------------
\* The congestion controller
\* ---------------------------------------------------------------------------
\* the value the coordinator commands for station cs
Commanded(commands, cs) == commands[IndexOf(commands, cs)].power

\* the step is a round of the coordinator that has at least one report
RoundWithReports ==
    /\ rounds' = rounds + 1
    /\ charging_stations_charge_speed # <<>>

\* C27: in a round with a congestion above zero, the value commanded for load
\* i is max(0, d_i - d_i * congestion / D), D the sum of the known demands,
\* and d_i itself when D is zero.
C27_ProportionalReduction ==
    [][(RoundWithReports /\ RLess(Float(0), congestion[CpoJid])) =>
         LET reports == charging_stations_charge_speed
             c == congestion[CpoJid]
             D == RSum([i \in 1..Len(reports) |-> reports[i].value])
         IN \A i \in 1..Len(reports) :
                LET d == reports[i].value
                IN Commanded(charging_stations_new_charge_speed', reports[i].CS)
                       = IF D # Float(0)
                         THEN RMax(Float(0), RSub(d, RDiv(RMul(d, c), D)))
                         ELSE d]_vars

\* demands 10 and 20 with a congestion of 6 were corrected to 8 and 16
C27_Witness ==
    /\ congestion[CpoJid] = Float(6)
    /\ Len(charging_stations_charge_speed) = 2
    /\ \A i \in 1..2 :
          charging_stations_charge_speed[i].value =
              max_power_usage_kw[charging_stations_charge_speed[i].CS]
    /\ IndexOf(charging_stations_new_charge_speed, "cs1") # 0
    /\ IndexOf(charging_stations_new_charge_speed, "cs2") # 0
    /\ Commanded(charging_stations_new_charge_speed, "cs1") = Float(8)
    /\ Commanded(charging_stations_new_charge_speed, "cs2") = Float(16)
    /\ rounds = 2

\* C28: in a round with a congestion below zero and N loads reported active,
\* the value commanded for an active load is its demand plus |congestion| / N
\* and the value of a load that is not active is not raised (nor is any
\* value when N is zero); a station applies a commanded value cut to its
\* capacity, and only while it is charging.
C28_OnlyActiveLoadsRaised ==
    [][/\ (RoundWithReports /\ RLess(congestion[CpoJid], Float(0))) =>
            LET reports == charging_stations_charge_speed
                c == congestion[CpoJid]
                N == Cardinality({i \in 1..Len(reports) : reports[i].is_charging})
            IN \A i \in 1..Len(reports) :
                   Commanded(charging_stations_new_charge_speed', reports[i].CS)
                       = IF reports[i].is_charging /\ N > 0
                         THEN RAdd(reports[i].value, RDiv(RAbs(c), Float(N)))
                         ELSE reports[i].value
       /\ \A s \in ManagedStations :
            (csBox[s] # <<>> /\ csBox'[s] = Tail(csBox[s])) =>
                charge_speed'[s] =
                    IF is_charging[s]
                    THEN RMin(Head(csBox[s]).new_charging_speed,
                              max_power_usage_kw[s])
                    ELSE charge_speed[s]]_vars

\* C29: with a congestion of exactly zero a round of the coordinator that has
\* a report changes no commanded value and leaves the coordinator running,
\* and a cycle of a station without a coordinator leaves its setpoint as it was.
C29_ZeroCongestionIsNoOp ==
    [][/\ (RoundWithReports /\ congestion[CpoJid] = Float(0)) =>
            /\ charging_stations_new_charge_speed'
                   = charging_stations_new_charge_speed
            /\ cpoPc' = "running"
       /\ \A s \in DirectStations :
            (cycles' = cycles + 1 /\ congestion[s] = Float(0)) =>
                charge_speed'[s] = charge_speed[s]]_vars

\* C30: no setpoint of a station and no value commanded by the coordinator is
\* ever below zero.
C30_NeverNegative ==
    /\ \A s \in Stations : ~RLess(charge_speed[s], Float(0))
    /\ \A i \in 1..Len(charging_stations_new_charge_speed) :
          ~RLess(charging_stations_new_charge_speed[i].power, Float(0))

\* C31: after any sequence of congestion corrections and correction commands
\* the setpoint of a controllable station is at most its declared maximum
\* power.
C31_SetpointWithinMaximum ==
    \A s \in Stations : ~RLess(max_power_usage_kw[s], charge_speed[s])

\* the setpoint the description gives a station without a coordinator after
\* one correction by congestion value c
ClaimedCorrection(c, speed, cap) ==
    IF RLess(Float(0), c)
    THEN RMax(Float(0),
              RSub(speed, RMul(c, Float(congestion_reduction_factor))))
    ELSE IF RLess(c, Float(0))
    THEN RMin(cap,
              RAdd(speed, RMul(RAbs(c), Float(congestion_reduction_factor))))
    ELSE speed

\* C34: a cycle of a charging station without a coordinator takes its setpoint
\* s to max(0, s - c*f) under a positive congestion value c and to
\* min(max_power, s + |c|*f) under a negative one, so that a correction for
\* oversupply never lowers the setpoint.
C34_CorrectionAsDescribed ==
    [][\A s \in DirectStations :
          ChargingStationCycle(s, TRUE) =>
              /\ charge_speed'[s] =
                     ClaimedCorrection(congestion[s], charge_speed[s],
                                       max_power_usage_kw[s])
              /\ RLess(congestion[s], Float(0)) =>
                     ~RLess(charge_speed'[s], charge_speed[s])]_vars

\* C32: a cycle of the periodic info task of a component publishes the info
\* message exactly when the body it builds differs from the body it recorded
\* at its previous publication, and records the body it publishes; a cycle
\* that finds the body unchanged sends nothing and keeps the record.
C32_InfoPublishedOnChange ==
    [][\A n \in Nodes :
          PeriodicInfo(n) =>
              IF last_info[n] # <<InfoBody(n, running[n])>>
              THEN /\ emitted' = <<InfoMessage(n, running[n])>>
                   /\ last_info'[n] = <<InfoBody(n, running[n])>>
              ELSE /\ emitted' = <<>>
                   /\ last_info' = last_info]_vars

\* the root alone is up and its periodic task has run twice: the first cycle
\* published and recorded the body, the second found it unchanged
C32_Witness ==
    /\ phase["main"] = "alive"
    /\ \A n \in Nodes \ {"main"} : phase[n] = "new"
    /\ infoCycles = 2
    /\ last_info["main"] = <<InfoBody("main", TRUE)>>
    /\ emitted = <<>>

\* C33: the re-anchoring that precedes a time broadcast leaves the timeline as
\* it was: the sim time the clock authority derives just after it equals the
\* sim time it derived just before, so that no elapsed simulated time is lost.
C33_ReanchorKeepsSimTime ==
    [][(timeTasks' = timeTasks - 1 /\ real_broadcast_timestamp' = now) =>
          SimTimestamp(real_broadcast_timestamp', sim_broadcast_timestamp',
                       rate', now')
              = SimTimestamp(real_broadcast_timestamp,
                             sim_broadcast_timestamp, rate, now)]_vars

\* C40: a time message that carries the rate the agent already has, rate 0
\* included, leaves the period of its periodic behaviour as it was.
C40_SameRateKeepsPeriod ==
    [][(\E data \in TimeData : ProcessTimeMessage(data) /\ data.rate = keeper.rate)
          => keeper'.period = keeper.period]_vars

\* C35: a topic message with a malformed body that reaches a subscriber is
\* dropped: the pending requests and the time keeping state stay as they
\* were, and the receiving behaviour goes on to its next cycle, in which it
\* handles later messages.
C35_MalformedMessageDropped ==
    [][(/\ subPc = "receive"
        /\ subBox # <<>>
        /\ subBox' = Tail(subBox)
        /\ Head(subBox) \in MalformedInputs) =>
           /\ request_dict' = request_dict
           /\ keeper' = keeper
           /\ subPc' = "send"]_vars

\* C36: send_data called with a recipient that is neither an address nor
\* None, a falsy one such as the empty string included, raises an error and
\* sends no message.
C36_InvalidRecipientRejected ==
    [][\A recipient \in NotJID \ {None} :
          SendData(recipient) =>
              /\ get_recipients_raises(recipient)
              /\ emitted' = <<>>]_vars

\* C37: a call of the parent setter with a malformed value (neither an address
\* nor a string, or one that lacks a localpart or a domain) raises an error to
\* the caller, leaves the parent as it was, adds no registration behaviour and
\* sends no message.
C37_MalformedParentRejected ==
    [][\A n \in Leaves, value \in ParentValues :
          (/\ SetParent(n, value)
           /\ \/ value.kind \notin {"JID", "str"}
              \/ value.localpart = ""
              \/ value.domain = "") =>
              /\ Len(parentErrors') = Len(parentErrors) + 1
              /\ parent' = parent
              /\ regTask' = regTask
              /\ emitted' = <<>>]_vars

\* the setter was called with a value of a wrong type and with an address
\* without a localpart, and raised both times
C37_Witness ==
    /\ parentErrors = <<"TypeError", "ValueError">>
    /\ parentCalls = 2

\* C38: an asset whose section names an unknown type or no maximum power is
\* skipped by the orchestrator: it is never started, is in no agent list,
\* sends no registration to its parent, and once its section has been
\* unpacked a warning is recorded for it; the assets that are started are the
\* well described ones.
C38_FailedAssetSkipped ==
    /\ \A n \in Leaves :
          asset_config[n] \in {"unknown_type", "no_max_power"} =>
              /\ phase[n] \in {"new", "skipped"}
              /\ ~running[n]
              /\ ~InSeq(prosumption_agents, n)
              /\ \A m \in Sent : m.sender # n
              /\ \A p \in Networks : ~InSeq(regBox[p], n)
              /\ \A p \in Networks : n \notin DOMAIN children[p]
              /\ phase[n] = "skipped" <=> InSeq(warnings, n)
    /\ \A n \in Leaves :
          asset_config[n] = "ok" =>
              /\ ~InSeq(warnings, n)
              /\ phase[n] = "alive" <=> InSeq(prosumption_agents, n)

\* the first asset of the star was skipped with a warning, and its sibling
\* after it was constructed, started and registered at the parent
C38_Witness ==
    /\ asset_config["a"] = "unknown_type"
    /\ phase["a"] = "skipped"
    /\ warnings = <<"a">>
    /\ phase["b"] = "alive"
    /\ prosumption_agents = <<"b">>
    /\ "b" \in DOMAIN children["main"]

\* the last step sent one time message to every current subscriber of the
\* time queue, each carrying the clock authority's current rate
BroadcastSeen ==
    /\ Len(emitted) = Len(time_subscribers)
    /\ \A i \in 1..Len(emitted) :
          /\ emitted[i].type = "time"
          /\ emitted[i].to = time_subscribers[i]
          /\ emitted[i].rate = rate

====
